---- MODULE Spec2Model ----
(***************************************************************************)
(* Cantus Firmus (src/src/index.js): a state container whose state is      *)
(* mirrored into window.localStorage so that several windows of one origin *)
(* share it.  The model has two windows (execution contexts), one          *)
(* localStorage entry, each window's CantusFirmus instance and Provider    *)
(* component, React's update queue of the Provider, and the storage-event  *)
(* notifications in flight.                                                *)
(*                                                                         *)
(* Values.  A state object is a function from keys to values.  A value is  *)
(* a number n >= 0 or a reference -a to the object heap[a]: nested objects *)
(* have identity, because cleanState deletes through references.  A        *)
(* top-level state object is never mutated in place by the code (React     *)
(* replaces it, cleanState and the setters copy it), so it is a value.     *)
(***************************************************************************)
EXTENDS Integers, Sequences, FiniteSets, TLC

\* ------------------------------------------------------------------ bounds
MaxHeap == 5       \* nested objects allocated in one window
MaxFree == 1       \* setState / setter calls outside the README scripts
MaxEvents == 1     \* storage events pending in one window
MaxNested == 1     \* calls made where the nested setters are called
MaxNameLen == 2    \* characters of a key
MaxLevel == 2      \* overwriteProtectionLevel
MaxPaths == 2      \* entries of privateStatePaths given to cleanState on its own
MaxDispatch == 2   \* calls made where dispatchers are called
MaxRenames == 2    \* entries of the map given to rename
MaxOpen == 3       \* windowManager.open calls
MaxRace == 2       \* setState calls where two windows both write
MaxSiblings == 2   \* nested setter calls made without awaiting

\* ------------------------------------------------------- program constants
ScriptLen == 3     \* README "Dynamic Setters": three calls in a row

Ctx == {"w1", "w2"}

\* ------------------------------------------------------------ JS objects
EmptyObj == [k \in {} |-> 0]
IsRef(v) == v < 0
Addr(v) == 0 - v
RefOf(a) == 0 - a
\* a function object held as a value (the updater addOne of the README)
AddOneFunction == 1000
IsFunction(v) == v = AddOneFunction
Has(o, k) == k \in DOMAIN o
Put(o, k, v) == [x \in (DOMAIN o) \cup {k} |-> IF x = k THEN v ELSE o[x]]
Remove(o, k) == [x \in (DOMAIN o) \ {k} |-> o[x]]
\* { ...a, ...b }
Spread(a, b) == [k \in (DOMAIN a) \cup (DOMAIN b) |-> IF k \in DOMAIN b THEN b[k] ELSE a[k]]

\* key enumeration order of the objects of the model (insertion order of the
\* default state; every object of a run lists its keys in this order)
KeyOrder == <<"secret", "public", "nested", "priv", "pub", "sib", "x">>

\* ------------------------------------------------------------------ JSON
\* The text of a snapshot is a sequence of tokens.
Tok(t, k, n) == [t |-> t, k |-> k, n |-> n]
LBrace == Tok("{", "", 0)
RBrace == Tok("}", "", 0)
Comma == Tok(",", "", 0)
KeyTok(k) == Tok("key", k, 0)
NumTok(n) == Tok("num", "", n)

RECURSIVE StringifyMembers(_, _, _, _)
StringifyMembers(o, h, i, first) ==
    IF i > Len(KeyOrder) THEN <<>>
    ELSE LET k == KeyOrder[i] IN
         \* a property whose value is a function is left out
         IF ~Has(o, k) \/ IsFunction(o[k]) THEN StringifyMembers(o, h, i + 1, first)
         ELSE (IF first THEN <<>> ELSE <<Comma>>) \o <<KeyTok(k)>>
              \o (IF IsRef(o[k])
                  THEN <<LBrace>> \o StringifyMembers(h[Addr(o[k])], h, 1, TRUE) \o <<RBrace>>
                  ELSE <<NumTok(o[k])>>)
              \o StringifyMembers(o, h, i + 1, FALSE)

JSONStringify(o, h) == <<LBrace>> \o StringifyMembers(o, h, 1, TRUE) \o <<RBrace>>

ParseFail(h) == [ok |-> FALSE, obj |-> EmptyObj, next |-> 0, heap |-> h]

RECURSIVE ParseMembers(_, _, _, _)
RECURSIVE ParseObject(_, _, _)
\* members from token i on, added to acc, up to and including the closing brace
ParseMembers(t, i, h, acc) ==
    IF i + 1 > Len(t) \/ t[i].t # "key" THEN ParseFail(h)
    ELSE LET k == t[i].k
             v == IF t[i + 1].t = "num"
                  THEN [ok |-> TRUE, val |-> t[i + 1].n, next |-> i + 2, heap |-> h]
                  ELSE LET r == ParseObject(t, i + 1, h) IN
                       [ok |-> r.ok, val |-> RefOf(Len(r.heap) + 1), next |-> r.next,
                        heap |-> Append(r.heap, r.obj)]
         IN IF ~v.ok \/ v.next > Len(t) THEN ParseFail(h)
            ELSE IF t[v.next].t = "}"
                 THEN [ok |-> TRUE, obj |-> Put(acc, k, v.val), next |-> v.next + 1, heap |-> v.heap]
            ELSE IF t[v.next].t = ","
                 THEN ParseMembers(t, v.next + 1, v.heap, Put(acc, k, v.val))
            ELSE ParseFail(h)

ParseObject(t, i, h) ==
    IF i + 1 > Len(t) \/ t[i].t # "{" THEN ParseFail(h)
    ELSE IF t[i + 1].t = "}" THEN [ok |-> TRUE, obj |-> EmptyObj, next |-> i + 2, heap |-> h]
    ELSE ParseMembers(t, i + 1, h, EmptyObj)

\* JSON.parse(text): ok = FALSE is the SyntaxError
JSONParse(t, h) ==
    LET r == ParseObject(t, 1, h) IN
    IF r.ok /\ r.next = Len(t) + 1 THEN r ELSE ParseFail(h)

\* ------------------------------------------------------- private entries
\* an element of privateStatePaths: a key (arr = FALSE, p = <<key>>) or an
\* array of keys (arr = TRUE)
KeyEntry(k) == [arr |-> FALSE, p |-> <<k>>]
PathEntry(p) == [arr |-> TRUE, p |-> p]

\* delete through the cursor: cur.kind is "top" (the copy), "obj" (heap[cur.a]),
\* "prim" (a number) or "undef"; deleting from undefined throws, which
\* cleanState catches
\* (mutant) a nested path is walked and nothing is deleted at its end
CleanWalkNoDelete(cleaned, h, p, i, cur) == [obj |-> cleaned, heap |-> h]

RECURSIVE CleanWalk(_, _, _, _, _)
CleanWalk(cleaned, h, p, i, cur) ==
    IF i > Len(p) \/ cur.kind = "undef" THEN [obj |-> cleaned, heap |-> h]
    ELSE IF i = Len(p)
         THEN IF cur.kind = "top" THEN [obj |-> Remove(cleaned, p[i]), heap |-> h]
              ELSE IF cur.kind = "obj"
                   THEN [obj |-> cleaned, heap |-> [h EXCEPT ![cur.a] = Remove(h[cur.a], p[i])]]
              ELSE [obj |-> cleaned, heap |-> h]
    ELSE LET o == IF cur.kind = "top" THEN cleaned
                  ELSE IF cur.kind = "obj" THEN h[cur.a] ELSE EmptyObj
             nxt == IF ~Has(o, p[i]) THEN [kind |-> "undef", a |-> 0]
                    ELSE IF IsRef(o[p[i]]) THEN [kind |-> "obj", a |-> Addr(o[p[i]])]
                    ELSE [kind |-> "prim", a |-> 0]
         IN CleanWalk(cleaned, h, p, i + 1, nxt)

\* (mutant) a path that deletes nothing ends the loop over the paths
RECURSIVE CleanFromStopsAtMissing(_, _, _, _)
CleanFromStopsAtMissing(cleaned, h, paths, j) ==
    IF j > Len(paths) THEN [obj |-> cleaned, heap |-> h]
    ELSE LET r == IF paths[j].arr
                  THEN CleanWalk(cleaned, h, paths[j].p, 1, [kind |-> "top", a |-> 0])
                  ELSE [obj |-> Remove(cleaned, paths[j].p[1]), heap |-> h]
         IN IF paths[j].arr /\ r = [obj |-> cleaned, heap |-> h] THEN r
            ELSE CleanFromStopsAtMissing(r.obj, r.heap, paths, j + 1)

RECURSIVE CleanFrom(_, _, _, _)
CleanFrom(cleaned, h, paths, j) ==
    IF j > Len(paths) THEN [obj |-> cleaned, heap |-> h]
    ELSE LET r == IF paths[j].arr
                  THEN CleanWalk(cleaned, h, paths[j].p, 1, [kind |-> "top", a |-> 0])
                  ELSE [obj |-> Remove(cleaned, paths[j].p[1]), heap |-> h]
         IN CleanFrom(r.obj, r.heap, paths, j + 1)

\* (mutant) the copy is returned with nothing deleted
cleanStateKeepsAll(state, privatePaths, h) == [obj |-> state, heap |-> h]

\* cleanState(state, privatePaths): the cleaned copy, and the heap after the
\* deletions made through the references of the copy
cleanState(state, privatePaths, h) == CleanFrom(state, h, privatePaths, 1)


\* ---------------------------------------------------------- nested paths
\* the path p leads to a value in object o
RECURSIVE HasPath(_, _, _, _)
HasPath(o, h, p, i) ==
    IF ~Has(o, p[i]) THEN FALSE
    ELSE IF i = Len(p) THEN TRUE
    ELSE IF IsRef(o[p[i]]) THEN HasPath(h[Addr(o[p[i]])], h, p, i + 1)
    ELSE FALSE

RECURSIVE ValueAt(_, _, _, _)
ValueAt(o, h, p, i) ==
    IF i = Len(p) THEN o[p[i]] ELSE ValueAt(h[Addr(o[p[i]])], h, p, i + 1)

\* getNestedRoutes(state): the paths of length > 1, depth first in the order of
\* the keys, the paths to nested objects included
RECURSIVE Traverse(_, _, _)
RECURSIVE TraverseKeys(_, _, _, _)
Traverse(element, h, currentPath) ==
    (IF Len(currentPath) > 1 THEN <<currentPath>> ELSE <<>>)
    \o (IF IsRef(element) THEN TraverseKeys(h[Addr(element)], h, currentPath, 1) ELSE <<>>)
TraverseKeys(o, h, currentPath, i) ==
    IF i > Len(KeyOrder) THEN <<>>
    ELSE (IF Has(o, KeyOrder[i])
          THEN Traverse(o[KeyOrder[i]], h, Append(currentPath, KeyOrder[i]))
          ELSE <<>>)
         \o TraverseKeys(o, h, currentPath, i + 1)
getNestedRoutes(state, h) == TraverseKeys(state, h, <<>>, 1)

\* (mutant) the copy of an object on the path starts empty
SpreadOfNothing(o, key, h) == EmptyObj

\* { ...value }: the own properties of an object, none of a number or undefined
SpreadOf(o, key, h) ==
    IF Has(o, key) /\ IsRef(o[key]) THEN h[Addr(o[key])] ELSE EmptyObj

\* (mutant) the walk assigns through the references of the live state, without
\* copying the objects on the way
RECURSIVE WalkInPlace(_, _, _, _, _, _)
WalkInPlace(copy, h, nsPath, i, cur, newValue) ==
    LET o == IF cur = 0 THEN copy ELSE h[cur]
        key == nsPath[i]
    IN IF i = Len(nsPath)
       THEN IF cur = 0 THEN [obj |-> Put(copy, key, newValue), heap |-> h]
            ELSE [obj |-> copy, heap |-> [h EXCEPT ![cur] = Put(h[cur], key, newValue)]]
       ELSE IF Has(o, key) /\ IsRef(o[key])
            THEN WalkInPlace(copy, h, nsPath, i + 1, Addr(o[key]), newValue)
            ELSE LET a == Len(h) + 1
                 IN WalkInPlace(IF cur = 0 THEN Put(copy, key, RefOf(a)) ELSE copy,
                                IF cur = 0 THEN Append(h, EmptyObj)
                                ELSE Append([h EXCEPT ![cur] = Put(h[cur], key, RefOf(a))], EmptyObj),
                                nsPath, i + 1, a, newValue)

\* the loop of nestedSetterFactory: currentPath is the copy (cur = 0) or the
\* object heap[cur], which the walk has just allocated
RECURSIVE NestedWalk(_, _, _, _, _, _)
NestedWalk(copy, h, nsPath, i, cur, newValue) ==
    LET o == IF cur = 0 THEN copy ELSE h[cur]
        key == nsPath[i]
    IN IF i = Len(nsPath)
       THEN IF cur = 0 THEN [obj |-> Put(copy, key, newValue), heap |-> h]
            ELSE [obj |-> copy, heap |-> [h EXCEPT ![cur] = Put(h[cur], key, newValue)]]
       ELSE LET a == Len(h) + 1
                fresh == SpreadOf(o, key, h)
            IN NestedWalk(IF cur = 0 THEN Put(copy, key, RefOf(a)) ELSE copy,
                          IF cur = 0 THEN Append(h, fresh)
                          ELSE Append([h EXCEPT ![cur] = Put(h[cur], key, RefOf(a))], fresh),
                          nsPath, i + 1, a, newValue)

\* (mutant) the value is assigned in the objects of the state itself, no copy
RECURSIVE AssignInPlace(_, _, _, _, _, _)
AssignInPlace(state, h, nsPath, i, cur, newValue) ==
    LET o == IF cur = 0 THEN state ELSE h[cur]
        key == nsPath[i]
    IN IF i = Len(nsPath)
       THEN IF cur = 0 THEN [obj |-> Put(state, key, newValue), heap |-> h]
            ELSE [obj |-> state, heap |-> [h EXCEPT ![cur] = Put(h[cur], key, newValue)]]
       ELSE AssignInPlace(state, h, nsPath, i + 1, Addr(o[key]), newValue)
nestedSetterFactoryInPlace(state, nsPath, newValue, h) ==
    AssignInPlace(state, h, nsPath, 1, 0, newValue)

\* nestedSetterFactory(state, nsPath)(newValue): the new state and the memory
\* with the objects it allocated
nestedSetterFactory(state, nsPath, newValue, h) == NestedWalk(state, h, nsPath, 1, 0, newValue)

\* ------------------------------------------------------------ the system
VARIABLES
    opts,          \* the options of the application, the same code in every window
    windowName,    \* window.name of each window
    phase,         \* "absent", "new", "connected", "provided", "mounted", "closed"
    bind,          \* CantusFirmus.bindToLocalStorage
    cfState,       \* CantusFirmus.state; the closure variable state of createProvider
    provState,     \* Provider.state (this.state of the component)
    setterKeys,    \* the keys that got a generated top-level setter
    queue,         \* React's pending updates of the Provider, oldest first
    events,        \* storage events delivered to the window and not yet handled
    heap,          \* the nested objects of each window (its own memory)
    localStorage,  \* the entry under storageOptions.name (the key "null" without a name)
    script,        \* the README script a window runs, if any
    freeCalls,     \* calls made outside the scripts
    last,          \* the operation that led to this state, and what it did in order
    ghost,         \* history: the name and the entry each window was configured with,
                   \* the names it opened and has not closed since
    nestedSetterPaths, \* the paths that got a generated nested setter
    windows,       \* Provider.windows: the child windows opened by the window manager
    closeLog,      \* how many close() calls each child window handle has received
    cleared,       \* history: an unload removed the entry; the other windows were at rest then
    getterPaths,   \* the keys and nested paths that got a generated getter
    race,          \* history: the writes of the setState calls, and who handled a
                   \* storage event after the first of them
    call,          \* a helper function called on its own: its name and arguments
    ret            \* what that call returned

vars == <<opts, windowName, phase, bind, cfState, provState, setterKeys, queue, events,
          heap, localStorage, script, freeCalls, last, ghost,
          nestedSetterPaths, windows, closeLog, cleared, getterPaths, race, call, ret>>

\* the variables of the window manager, of a helper called on its own, and of
\* the windows
winVars == <<windows, closeLog, cleared, getterPaths, race>>
helperVars == <<call, ret>>
windowVars == <<opts, windowName, phase, bind, cfState, provState, setterKeys, queue, events,
                heap, localStorage, script, freeCalls, last, ghost,
                nestedSetterPaths, windows, closeLog, cleared, getterPaths, race>>

StorageName == "cf"
\* name: null, the default of an application that gives no name
NoName == ""
SubscriberWindows == {"child"}
\* the names an application passes to windowManager.open
OpenNames == {"child", "guest"}

\* DEFAULT_STORAGE_OPTIONS merged with the options of the application
DefaultProviderWindow(o) == IF o.providerWindow = "" THEN o.name ELSE o.providerWindow

storageOptions ==
    [name |-> opts.name,
     providerWindow |-> DefaultProviderWindow(opts),
     subscriberWindows |-> SubscriberWindows,
     initializeFromLocalStorage |-> opts.initializeFromLocalStorage,
     privateStatePaths |-> opts.privateStatePaths]

NoItem == [present |-> FALSE, text |-> <<>>]
Item(text) == [present |-> TRUE, text |-> text]
\* if (localStorage.getItem(name)): null and "" are falsy
Truthy(ls) == ls.present /\ ls.text # <<>>

NestedDefault == [k \in {"priv", "pub"} |-> IF k = "priv" THEN 1 ELSE 2]
\* the default state; its nested object is the first object of the window's heap
DefaultState(shape) ==
    IF shape = "flat"
    THEN [k \in {"secret", "public"} |-> IF k = "secret" THEN 1 ELSE 2]
    ELSE IF shape = "deep"
    THEN [k \in {"public", "nested"} |-> IF k = "public" THEN 2 ELSE RefOf(1)]
    ELSE [k \in {"secret", "public", "nested"} |->
            IF k = "secret" THEN 1 ELSE IF k = "public" THEN 2 ELSE RefOf(1)]

\* the default state with two levels of nesting: {public: 2, nested: {pub: 2, sib: {x: 1}}}
DeepNested == [k \in {"pub", "sib"} |-> IF k = "pub" THEN 2 ELSE RefOf(2)]
DeepSib == [k \in {"x"} |-> 1]
\* the nested objects of the default state, in the window's memory
DefaultObjects(shape) ==
    IF shape = "flat" THEN <<>>
    ELSE IF shape = "deep" THEN <<DeepNested, DeepSib>>
    ELSE <<NestedDefault>>

Configs ==
    { [shape |-> "flat", privateStatePaths |-> <<>>],
      [shape |-> "flat", privateStatePaths |-> <<KeyEntry("secret")>>],
      [shape |-> "nested", privateStatePaths |-> <<KeyEntry("secret")>>],
      [shape |-> "nested", privateStatePaths |-> <<KeyEntry("secret"), PathEntry(<<"nested", "priv">>)>>] }

\* the entry a provider of an earlier session left behind: its state then
\* (public = 3, nested.pub = 3), cleaned and serialised
PriorText(cfg) ==
    LET h0 == <<[k \in {"priv", "pub"} |-> IF k = "priv" THEN 1 ELSE 3]>>
        st == IF cfg.shape = "flat"
              THEN [k \in {"secret", "public"} |-> IF k = "secret" THEN 1 ELSE 3]
              ELSE [k \in {"secret", "public", "nested"} |->
                      IF k = "secret" THEN 1 ELSE IF k = "public" THEN 3 ELSE RefOf(1)]
        cl == cleanState(st, cfg.privateStatePaths, h0)
    IN JSONStringify(cl.obj, cl.heap)

\* providerWindow is given, or left out (in the application without private
\* paths), and then defaults to the storage name
ProviderWindowChoices(cfg) ==
    IF cfg.privateStatePaths = <<>> THEN {"", "main"} ELSE {"main"}

NoScript == [kind |-> "none", left |-> 0, base |-> 0, seen |-> <<>>, resolved |-> FALSE,
             disturbed |-> FALSE, done |-> FALSE, final |-> 0]

NoLast == [op |-> "Init", ctx |-> "w1", log |-> <<>>, batch |-> <<>>,
           before |-> EmptyObj, after |-> EmptyObj, bound |-> FALSE, heapBefore |-> <<>>,
           registry |-> {}, closed |-> {}, name |-> "", threw |-> FALSE,
           path |-> <<>>, val |-> [kind |-> "none", v |-> 0]]

NoCall == [fn |-> "none"]

\* no write is recorded
NoRace == [on |-> FALSE, writes |-> <<>>, handled |-> {}]

\* what is the same at the start of every run: nothing is configured, nothing
\* is mounted, no call was made
Quiet ==
    /\ bind = [c \in Ctx |-> FALSE]
    /\ provState = [c \in Ctx |-> EmptyObj]
    /\ setterKeys = [c \in Ctx |-> {}]
    /\ nestedSetterPaths = [c \in Ctx |-> <<>>]
    /\ queue = [c \in Ctx |-> <<>>]
    /\ events = [c \in Ctx |-> 0]
    /\ script = [c \in Ctx |-> NoScript]
    /\ freeCalls = 0
    /\ last = NoLast
    /\ ghost = [c \in Ctx |-> [origName |-> windowName[c], entry |-> NoItem, opened |-> {}]]
    /\ windows = [c \in Ctx |-> {}]
    /\ closeLog = [n \in OpenNames |-> 0]
    /\ cleared = [done |-> FALSE, atRest |-> FALSE]
    /\ getterPaths = [c \in Ctx |-> <<>>]

NothingPending ==
    /\ race = NoRace
    /\ Quiet

NoWindowStarted ==
    /\ phase = [c \in Ctx |-> "new"]
    /\ NothingPending

Start ==
    /\ NoWindowStarted
    /\ call = NoCall
    /\ ret = NoCall

\* DEFAULT_OPTIONS and DEFAULT_STORAGE_OPTIONS for what an application leaves out
Options(cfg, init, pw) ==
    [shape |-> cfg.shape, privateStatePaths |-> cfg.privateStatePaths,
     initializeFromLocalStorage |-> init, providerWindow |-> pw,
     nestedSetters |-> FALSE, removeChildrenOnUnload |-> TRUE,
     clearStorageOnUnload |-> TRUE, name |-> StorageName]

Init ==
    /\ \E cfg \in Configs, init \in BOOLEAN :
       \E pw \in ProviderWindowChoices(cfg) :
          /\ opts = Options(cfg, init, pw)
          /\ cfState = [c \in Ctx |-> DefaultState(cfg.shape)]
          /\ heap = [c \in Ctx |-> IF cfg.shape = "flat" THEN <<>> ELSE <<NestedDefault>>]
          /\ localStorage \in {NoItem, Item(PriorText(cfg))}
    /\ \E n1 \in {""}, n2 \in {"child", "stale", "main"} :
          windowName = [c \in Ctx |-> IF c = "w1" THEN n1 ELSE n2]
    /\ Start

\* ---------------------------------------------------- connectToLocalStorage
\* (mutant) only a left-over name is replaced, an unset name stays unset
AssignWindowNameLeftOverOnly(name, so) ==
    IF name # "" /\ name \notin so.subscriberWindows /\ name # so.providerWindow
    THEN so.providerWindow ELSE name

\* the two rules on window.name
AssignWindowName(name, so) ==
    LET n1 == IF name # "" /\ name \notin so.subscriberWindows /\ name # so.providerWindow
              THEN so.providerWindow ELSE name
    IN IF n1 = "" /\ so.providerWindow # "" THEN so.providerWindow ELSE n1

\* initializeFromLocalStorage: { ...this.state, ...JSON.parse(entry) }
ProviderInit(state, parsed) == Spread(state, parsed)

\* (mutant) the subscriber merges the entry into its default state
SubscriberInitMerged(state, parsed) == Spread(state, parsed)

\* a subscriber window: this.state = JSON.parse(entry)
SubscriberInit(state, parsed) == parsed

Connect(c) ==
    /\ phase[c] = "new"
    /\ IF storageOptions.name = NoName
       THEN \* throws, after bindToLocalStorage and storageOptions are assigned
            /\ ghost' = [ghost EXCEPT ![c].entry = localStorage]
            /\ last' = [NoLast EXCEPT !.op = "Connect", !.ctx = c, !.threw = TRUE]
            /\ UNCHANGED <<windowName, cfState, heap>>
       ELSE
       LET so == storageOptions
           nm == AssignWindowName(windowName[c], so)
           r1 == IF so.initializeFromLocalStorage /\ Truthy(localStorage)
                 THEN JSONParse(localStorage.text, heap[c]) ELSE ParseFail(heap[c])
           s1 == IF r1.ok THEN ProviderInit(cfState[c], r1.obj) ELSE cfState[c]
           r2 == IF nm \in so.subscriberWindows /\ Truthy(localStorage)
                 THEN JSONParse(localStorage.text, r1.heap) ELSE ParseFail(r1.heap)
           s2 == IF r2.ok THEN SubscriberInit(s1, r2.obj) ELSE s1
       IN /\ Len(r2.heap) <= MaxHeap
          /\ windowName' = [windowName EXCEPT ![c] = nm]
          /\ cfState' = [cfState EXCEPT ![c] = s2]
          /\ heap' = [heap EXCEPT ![c] = r2.heap]
          /\ ghost' = [ghost EXCEPT ![c].entry = localStorage]
          /\ last' = [NoLast EXCEPT !.op = "Connect", !.ctx = c]
    /\ bind' = [bind EXCEPT ![c] = TRUE]
    /\ phase' = [phase EXCEPT ![c] = "connected"]
    /\ UNCHANGED <<nestedSetterPaths, winVars, helperVars>>
    /\ UNCHANGED <<opts, provState, setterKeys, queue, events, localStorage, script, freeCalls>>

\* ------------------------------------------------------------ localStorage
Listening(d) == phase[d] = "mounted" /\ bind[d]

\* (mutant) an entry that exists is not overwritten
SetItemIfAbsent(acc, c, text) ==
    IF acc.ls.present THEN acc
    ELSE [acc EXCEPT !.ls = Item(text),
                     !.ev = [d \in Ctx |-> IF d # c /\ Listening(d)
                                           THEN acc.ev[d] + 1 ELSE acc.ev[d]]]

\* localStorage.setItem: the other windows that listen are notified when the
\* stored value changes
SetItem(acc, c, text) ==
    LET changed == ~acc.ls.present \/ acc.ls.text # text IN
    [acc EXCEPT !.ls = Item(text),
                !.ev = [d \in Ctx |-> IF changed /\ d # c /\ Listening(d)
                                      THEN acc.ev[d] + 1 ELSE acc.ev[d]]]

EventsOk(ev) == \A d \in Ctx : ev[d] <= MaxEvents

\* ------------------------------------------------------------ createProvider
\* "for (let s in state)": the keys of the state, each as a path of one key
RECURSIVE TopLevelPaths(_, _)
TopLevelPaths(state, i) ==
    IF i > Len(KeyOrder) THEN <<>>
    ELSE (IF Has(state, KeyOrder[i]) THEN << <<KeyOrder[i]>> >> ELSE <<>>)
         \o TopLevelPaths(state, i + 1)

CreateProvider(c) ==
    /\ phase[c] \in {"new", "connected"}
    /\ IF bind[c] /\ storageOptions.name # NoName
       THEN LET cl == cleanState(cfState[c], storageOptions.privateStatePaths, heap[c])
                acc == SetItem([heap |-> cl.heap, ls |-> localStorage, ev |-> events, log |-> <<>>],
                               c, JSONStringify(cl.obj, cl.heap))
            IN /\ EventsOk(acc.ev)
               /\ heap' = [heap EXCEPT ![c] = acc.heap]
               /\ localStorage' = acc.ls
               /\ events' = acc.ev
       ELSE UNCHANGED <<heap, localStorage, events>>
    /\ setterKeys' = [setterKeys EXCEPT ![c] = DOMAIN cfState[c]]
    /\ nestedSetterPaths' = [nestedSetterPaths EXCEPT ![c] =
          IF opts.nestedSetters THEN getNestedRoutes(cfState[c], heap'[c]) ELSE <<>>]
    /\ getterPaths' = [getterPaths EXCEPT ![c] =
          TopLevelPaths(cfState[c], 1) \o getNestedRoutes(cfState[c], heap'[c])]
    /\ phase' = [phase EXCEPT ![c] = "provided"]
    /\ last' = [NoLast EXCEPT !.op = "CreateProvider", !.ctx = c, !.bound = bind[c],
                              !.after = cfState[c], !.heapBefore = heap[c]]
    /\ UNCHANGED <<windows, closeLog, cleared, race, helperVars>>
    /\ UNCHANGED <<opts, windowName, bind, cfState, provState, queue, script, freeCalls, ghost>>

\* ------------------------------------- Provider constructor, componentDidMount
Mount(c) ==
    /\ phase[c] = "provided"
    /\ LET r == IF bind[c] /\ storageOptions.initializeFromLocalStorage /\ Truthy(localStorage)
                THEN JSONParse(localStorage.text, heap[c]) ELSE ParseFail(heap[c])
       IN /\ Len(r.heap) <= MaxHeap
          /\ provState' = [provState EXCEPT ![c] =
                              IF r.ok THEN Spread(cfState[c], r.obj) ELSE cfState[c]]
          /\ heap' = [heap EXCEPT ![c] = r.heap]
    /\ phase' = [phase EXCEPT ![c] = "mounted"]
    /\ last' = [NoLast EXCEPT !.op = "Mount", !.ctx = c]
    /\ UNCHANGED <<nestedSetterPaths, winVars, helperVars>>
    /\ UNCHANGED <<opts, windowName, bind, cfState, setterKeys, queue, events, localStorage,
                   script, freeCalls, ghost>>

\* --------------------------------------------------------- the update queue
\* a pending update of React: the payload of setState (an object, or the
\* updater prevState => ({key: prevState.key + 1})) and whether the caller gave
\* a callback; and of the call that made it: who called, the key and the value
\* it was called for, and the live state at the call
Update(fn, key, val, partial, cb, src, pre) ==
    [fn |-> fn, key |-> key, val |-> val, partial |-> partial, cb |-> cb, src |-> src,
     pre |-> pre]

Enqueue(c, u) == queue' = [queue EXCEPT ![c] = Append(queue[c], u)]

\* README, option 2: const addOne = prevState => ({myValue: prevState.myValue + 1})
AddOne(key, prevState) == [k \in {key} |-> prevState[key] + 1]

\* (mutant) a function payload is merged like an object: it adds no key
ApplyUpdateObjectOnly(st, u) ==
    IF u.fn THEN st ELSE Spread(st, u.partial)

\* React: Object.assign({}, prevState, partialState)
ApplyUpdate(st, u) ==
    IF u.fn THEN Spread(st, AddOne(u.key, st)) ELSE Spread(st, u.partial)

\* (mutant) every updater of a batch gets the state from before the batch
RECURSIVE ProcessFromBase(_, _, _)
ProcessFromBase(q, base, st) ==
    IF q = <<>> THEN st
    ELSE ProcessFromBase(Tail(q), base,
            Spread(st, IF Head(q).fn THEN AddOne(Head(q).key, base) ELSE Head(q).partial))
ProcessUpdateQueueStale(q, st) == ProcessFromBase(q, st, st)

\* React processes the pending updates in the order of the calls, each on the
\* result of the one before
RECURSIVE ProcessUpdateQueue(_, _)
ProcessUpdateQueue(q, st) ==
    IF q = <<>> THEN st ELSE ProcessUpdateQueue(Tail(q), ApplyUpdate(st, Head(q)))

\* one entry of the record of a commit: what happened, for which update of the
\* batch, with which state, and what localStorage held at that moment
Ev(ev, i, arg, ls) == [ev |-> ev, i |-> i, arg |-> arg, ls |-> ls]

\* the branch of Provider.setState that writes localStorage
Persist(c, acc, i, st) ==
    IF ~bind[c] THEN acc
    ELSE IF Len(storageOptions.privateStatePaths) > 0
            /\ windowName[c] = storageOptions.providerWindow
         THEN LET cl == cleanState(st, storageOptions.privateStatePaths, acc.heap)
                  a1 == SetItem([acc EXCEPT !.heap = cl.heap], c, JSONStringify(cl.obj, cl.heap))
              IN [a1 EXCEPT !.log = Append(a1.log, Ev("persist", i, cl.obj, a1.ls))]
         ELSE LET a1 == SetItem(acc, c, JSONStringify(st, acc.heap))
              IN [a1 EXCEPT !.log = Append(a1.log, Ev("persist", i, st, a1.ls))]

InvokeCallback(acc, i, st) == [acc EXCEPT !.log = Append(acc.log, Ev("callback", i, st, acc.ls))]

Resolve(acc, i, st) == [acc EXCEPT !.log = Append(acc.log, Ev("resolve", i, st, acc.ls))]

\* (mutant) the promise resolves and the callback runs before the write
SetStateCallbackWriteLast(c, acc, i, st) ==
    Persist(c, InvokeCallback(Resolve(acc, i, st), i, st), i, st)

\* the function Provider.setState hands to setStateMaster, run by React after
\* the commit: persist, callback(this.state), resolve(this.state)
SetStateCallback(c, acc, i, st) ==
    Resolve(InvokeCallback(Persist(c, acc, i, st), i, st), i, st)

\* what a callback gets when it is called without an argument
Undefined == [undefined |-> 0]

\* (mutant) the dispatcher's callback does not resolve
DispatchCallbackSilent(acc, i) == acc

\* the function a dispatcher hands to setStateMaster:
\* updatedState => resolve(updatedState); React calls it with no argument
DispatchCallback(acc, i) == Resolve(acc, i, Undefined)

\* React runs the callbacks of the committed updates in the order of the calls
RECURSIVE RunCallbacks(_, _, _, _, _)
RunCallbacks(c, n, i, acc, st) ==
    IF i > n THEN acc
    ELSE RunCallbacks(c, n, i + 1,
                      IF queue[c][i].src = "dispatch" THEN DispatchCallback(acc, i)
                      ELSE SetStateCallback(c, acc, i, st), st)

HasScriptUpdate(q) == \E i \in 1..Len(q) : q[i].src = "script"

\* run to completion: between the calls of a burst, and while the continuation
\* of an awaited call is due, nothing else runs in the window
MidBurst(c) == script[c].kind = "burst" /\ script[c].left > 0
ContinuationDue(c) == script[c].kind = "chain" /\ script[c].resolved /\ ~script[c].done
Busy(c) == MidBurst(c) \/ ContinuationDue(c)
ScriptActive(c) == script[c].kind # "none" /\ ~script[c].done

Disturb(c) ==
    script' = [script EXCEPT ![c].disturbed = script[c].disturbed \/ ScriptActive(c)]

\* React commits the pending updates of the Provider and runs their callbacks
Commit(c) ==
    /\ phase[c] = "mounted"
    /\ queue[c] # <<>>
    /\ ~ContinuationDue(c)
    /\ LET q == queue[c]
           st == ProcessUpdateQueue(q, provState[c])
           acc == RunCallbacks(c, Len(q), 1,
                               [heap |-> heap[c], ls |-> localStorage, ev |-> events,
                                log |-> <<Ev("commit", 0, st, localStorage)>>], st)
           mine == HasScriptUpdate(q)
           s == script[c]
       IN /\ EventsOk(acc.ev)
          /\ provState' = [provState EXCEPT ![c] = st]
          /\ heap' = [heap EXCEPT ![c] = acc.heap]
          /\ localStorage' = acc.ls
          /\ events' = acc.ev
          /\ script' = [script EXCEPT ![c] =
                IF ~mine THEN s
                ELSE IF s.kind = "chain" THEN [s EXCEPT !.resolved = TRUE]
                ELSE IF s.left = 0 THEN [s EXCEPT !.done = TRUE, !.final = st["public"]]
                ELSE s]
          /\ last' = [op |-> "Commit", ctx |-> c, log |-> acc.log, batch |-> q,
                      before |-> provState[c], after |-> st, bound |-> bind[c],
                      heapBefore |-> heap[c], registry |-> {}, closed |-> {},
                      name |-> "", threw |-> FALSE,
                      path |-> <<>>, val |-> [kind |-> "none", v |-> 0]]
    /\ queue' = [queue EXCEPT ![c] = <<>>]
    /\ race' = IF race.on /\ \E i \in 1..Len(queue[c]) : queue[c][i].src = "setState"
               THEN LET u == queue[c][CHOOSE i \in 1..Len(queue[c]) : queue[c][i].src = "setState"]
                    IN [race EXCEPT !.writes =
                           Append(@, [ctx |-> c, text |-> localStorage'.text, key |-> u.key,
                                      val |-> u.val, handledBefore |-> race.handled,
                                      listening |-> {d \in Ctx : Listening(d)}])]
               ELSE race
    /\ UNCHANGED <<nestedSetterPaths, windows, closeLog, cleared, getterPaths, helperVars>>
    /\ UNCHANGED <<opts, windowName, phase, bind, cfState, setterKeys, freeCalls, ghost>>

\* ------------------------------------------------------------- user calls
SetVals == {5}
IsPrimKey(c, k) == Has(provState[c], k) /\ ~IsRef(provState[c][k])

\* this.setState({k: v}, cb) from a method or a component, while fewer than
\* budget calls were made
SetStateWithin(c, k, v, cb, budget) ==
    /\ phase[c] = "mounted" /\ ~Busy(c)
    /\ freeCalls < budget
    /\ IsPrimKey(c, k)
    /\ Enqueue(c, Update(FALSE, k, v, [x \in {k} |-> v], cb, "setState", provState[c]))
    /\ freeCalls' = freeCalls + 1
    /\ Disturb(c)
    /\ last' = [NoLast EXCEPT !.op = "SetStateCall", !.ctx = c]
    /\ UNCHANGED <<nestedSetterPaths, winVars, helperVars>>
    /\ UNCHANGED <<opts, windowName, phase, bind, cfState, provState, setterKeys, events,
                   heap, localStorage, ghost>>

SetStateCall(c, k, v, cb) == SetStateWithin(c, k, v, cb, MaxFree)

\* (mutant) the loop variable is shared: every setter writes the same key
SetterPartialSharedKey(s, value) == [x \in {"public"} |-> value]

\* a generated setter called with a value: const newState = {}; newState[s] = value
SetterPartial(s, value) == [x \in {s} |-> value]

SetterCall(c, s, v, cb) ==
    /\ phase[c] = "mounted" /\ ~Busy(c)
    /\ freeCalls < MaxFree
    /\ s \in setterKeys[c] /\ IsPrimKey(c, s)
    /\ Enqueue(c, Update(FALSE, s, v, SetterPartial(s, v), cb, "setter", provState[c]))
    /\ freeCalls' = freeCalls + 1
    /\ Disturb(c)
    /\ last' = [NoLast EXCEPT !.op = "SetterCall", !.ctx = c]
    /\ UNCHANGED <<nestedSetterPaths, winVars, helperVars>>
    /\ UNCHANGED <<opts, windowName, phase, bind, cfState, provState, setterKeys, events,
                   heap, localStorage, ghost>>

\* -------------------------------------------------------------- reducers
\* README: a reducer returns {...state, key: action.payload} for the action
\* types it knows and state for the others
Reduce(state, action) ==
    IF action.known THEN Spread(state, [k \in {action.key} |-> action.payload]) ELSE state

\* reducers.r.dispatch(state, action), called with the state of the context:
\* this.setStateMaster(this.reducers[r](state, action), callback)
DispatchCall(c, key, payload, known) ==
    /\ phase[c] = "mounted" /\ ~Busy(c)
    /\ freeCalls < MaxDispatch
    /\ IsPrimKey(c, key)
    /\ Enqueue(c, Update(FALSE, key, payload,
                         Reduce(provState[c], [known |-> known, key |-> key, payload |-> payload]),
                         FALSE, "dispatch", provState[c]))
    /\ freeCalls' = freeCalls + 1
    /\ Disturb(c)
    /\ last' = [NoLast EXCEPT !.op = "DispatchCall", !.ctx = c]
    /\ UNCHANGED <<nestedSetterPaths, winVars, helperVars>>
    /\ UNCHANGED <<opts, windowName, phase, bind, cfState, provState, setterKeys, events,
                   heap, localStorage, ghost>>

\* ---------------------------------------------------------- nested setters
\* the update a nested setter hands to setState: the whole new state; and of
\* the call: the path, the argument, the live state and memory it read
NestedUpdate(nsPath, value, newState, pre, preHeap) ==
    [fn |-> FALSE, key |-> nsPath, val |-> value, partial |-> newState, cb |-> FALSE,
     src |-> "nested", pre |-> pre, preHeap |-> preHeap]

\* what a call passes: a new number, the function addOne, or the value that
\* is at the path already
NestedArgs(c, j) ==
    IF j > Len(nestedSetterPaths[c]) THEN {}
    ELSE SetVals \cup {AddOneFunction}
         \cup (IF HasPath(provState[c], heap[c], nestedSetterPaths[c][j], 1)
               THEN {ValueAt(provState[c], heap[c], nestedSetterPaths[c][j], 1)} ELSE {})

\* a generated nested setter: nestedSetterFactory(this.state, nsPath)(value),
\* then this.setState(newState)
NestedSetterWithin(c, j, value, budget) ==
    /\ phase[c] = "mounted" /\ ~Busy(c)
    /\ freeCalls < budget
    /\ j \in 1..Len(nestedSetterPaths[c])
    /\ LET nsPath == nestedSetterPaths[c][j]
           r == nestedSetterFactory(provState[c], nsPath, value, heap[c])
       IN /\ Len(r.heap) <= MaxHeap
          /\ heap' = [heap EXCEPT ![c] = r.heap]
          /\ Enqueue(c, NestedUpdate(nsPath, value, r.obj, provState[c], heap[c]))
          /\ last' = [NoLast EXCEPT !.op = "NestedSetterCall", !.ctx = c,
                                    !.before = provState[c], !.after = r.obj]
    /\ freeCalls' = freeCalls + 1
    /\ Disturb(c)
    /\ UNCHANGED <<nestedSetterPaths, winVars, helperVars>>
    /\ UNCHANGED <<opts, windowName, phase, bind, cfState, provState, setterKeys, events,
                   localStorage, ghost>>

NestedSetterCall(c, j, value) == NestedSetterWithin(c, j, value, MaxNested)

\* ------------------------------------------------------- README scripts
\* "chain": await setters.setPublic(addOne), three times; "burst": the three
\* calls without await.  A generated setter hands a function to setState as is.
ScriptKey == "public"

ScriptStart(c, kind) ==
    /\ phase[c] = "mounted" /\ ~Busy(c)
    /\ \A d \in Ctx : script[d].kind = "none"
    /\ ScriptKey \in setterKeys[c] /\ IsPrimKey(c, ScriptKey)
    /\ Enqueue(c, Update(TRUE, ScriptKey, 0, EmptyObj, FALSE, "script", provState[c]))
    /\ script' = [script EXCEPT ![c] =
          [NoScript EXCEPT !.kind = kind, !.left = ScriptLen - 1,
                           !.base = provState[c][ScriptKey],
                           !.disturbed = (queue[c] # <<>>)]]
    /\ last' = [NoLast EXCEPT !.op = "ScriptStart", !.ctx = c]
    /\ UNCHANGED <<nestedSetterPaths, winVars, helperVars>>
    /\ UNCHANGED <<opts, windowName, phase, bind, cfState, provState, setterKeys, events,
                   heap, localStorage, freeCalls, ghost>>

\* the next call: of a burst at once, of a chain when the awaited promise has
\* resolved (the continuation reads the live state first)
ScriptNext(c) ==
    /\ script[c].left > 0
    /\ \/ script[c].kind = "burst"
       \/ script[c].kind = "chain" /\ script[c].resolved
    /\ Enqueue(c, Update(TRUE, ScriptKey, 0, EmptyObj, FALSE, "script", provState[c]))
    /\ script' = [script EXCEPT ![c].left = script[c].left - 1,
                                ![c].resolved = FALSE,
                                ![c].seen = IF script[c].kind = "chain"
                                            THEN Append(script[c].seen, provState[c][ScriptKey])
                                            ELSE script[c].seen]
    /\ last' = [NoLast EXCEPT !.op = "ScriptNext", !.ctx = c]
    /\ UNCHANGED <<nestedSetterPaths, winVars, helperVars>>
    /\ UNCHANGED <<opts, windowName, phase, bind, cfState, provState, setterKeys, events,
                   heap, localStorage, freeCalls, ghost>>

\* the continuation after the last awaited call
ScriptEnd(c) ==
    /\ script[c].kind = "chain" /\ script[c].left = 0
    /\ script[c].resolved /\ ~script[c].done
    /\ script' = [script EXCEPT ![c].done = TRUE,
                                ![c].seen = Append(script[c].seen, provState[c][ScriptKey]),
                                ![c].final = provState[c][ScriptKey]]
    /\ last' = [NoLast EXCEPT !.op = "ScriptEnd", !.ctx = c]
    /\ UNCHANGED <<nestedSetterPaths, winVars, helperVars>>
    /\ UNCHANGED <<opts, windowName, phase, bind, cfState, provState, setterKeys, queue, events,
                   heap, localStorage, freeCalls, ghost>>

\* ------------------------------------------ the "storage" event listener
\* JSON.parse(localStorage.getItem(name)): JSON.parse(null) is null, and
\* spreading null adds nothing
ParseItem(ls, h) ==
    IF ls.present THEN JSONParse(ls.text, h) ELSE [ParseFail(h) EXCEPT !.ok = TRUE]

\* the catch block of updateStateFromLocalStorage: an entry that is a string
\* is parsed again, outside any try
CatchParse(ls, h) ==
    IF ls.present THEN JSONParse(ls.text, h) ELSE [ParseFail(h) EXCEPT !.ok = TRUE]

\* updateStateFromLocalStorage: the state handed to setState, or the
\* SyntaxError that leaves the listener
updateStateFromLocalStorage(state, ls, h) ==
    LET r == ParseItem(ls, h) IN
    IF r.ok THEN [threw |-> FALSE, state |-> Spread(state, r.obj), heap |-> r.heap]
    ELSE LET r2 == CatchParse(ls, h) IN
         IF r2.ok THEN [threw |-> FALSE, state |-> Spread(state, r2.obj), heap |-> r2.heap]
         ELSE [threw |-> TRUE, state |-> state, heap |-> h]

HandleStorage(c) ==
    /\ Listening(c) /\ ~Busy(c)
    /\ events[c] > 0
    /\ LET r == updateStateFromLocalStorage(provState[c], localStorage, heap[c])
       IN /\ Len(r.heap) <= MaxHeap
          /\ heap' = [heap EXCEPT ![c] = r.heap]
          /\ IF r.threw THEN UNCHANGED queue
             ELSE Enqueue(c, Update(FALSE, "", 0, r.state, FALSE, "storage", provState[c]))
          /\ last' = [NoLast EXCEPT !.op = "HandleStorage", !.ctx = c, !.threw = r.threw]
    /\ events' = [events EXCEPT ![c] = events[c] - 1]
    /\ Disturb(c)
    /\ race' = IF race.on /\ race.writes # <<>>
               THEN [race EXCEPT !.handled = @ \cup {c}]
               ELSE race
    /\ UNCHANGED <<nestedSetterPaths, windows, closeLog, cleared, getterPaths, helperVars>>
    /\ UNCHANGED <<opts, windowName, phase, bind, cfState, provState, setterKeys, localStorage,
                   freeCalls, ghost>>

\* the windows start, their users call setState and the setters, React
\* commits, the storage events arrive
Next ==
    \/ \E c \in Ctx : Connect(c)
    \/ \E c \in Ctx : CreateProvider(c)
    \/ \E c \in Ctx : Mount(c)
    \/ \E c \in Ctx : Commit(c)
    \/ \E c \in Ctx, k \in {"secret", "public"}, v \in SetVals, cb \in BOOLEAN :
          SetStateCall(c, k, v, cb)
    \/ \E c \in Ctx, k \in {"secret", "public"}, v \in SetVals :
          SetterCall(c, k, v, FALSE)
    \/ \E c \in Ctx : HandleStorage(c)

Spec == Init /\ [][Next]_vars

\* the same windows, one of them running a README script
NextScript ==
    \/ \E c \in Ctx : Connect(c)
    \/ \E c \in Ctx : CreateProvider(c)
    \/ \E c \in Ctx : Mount(c)
    \/ \E c \in Ctx : Commit(c)
    \/ \E c \in Ctx, kind \in {"chain", "burst"} : ScriptStart(c, kind)
    \/ \E c \in Ctx : ScriptNext(c)
    \/ \E c \in Ctx : ScriptEnd(c)
    \/ \E c \in Ctx : HandleStorage(c)

\* the applications that name their provider window; the other window is a
\* subscriber or a second provider
InitScript ==
    /\ Init
    /\ opts.providerWindow # ""
    /\ windowName["w2"] \in {"child", "stale"}

SpecScript == InitScript /\ [][NextScript]_vars

\* ---------------------------------------------- an application with nested setters
\* the default state has two levels of nesting, nestedSetters is on, and the
\* application may keep nested.pub private; a window that never calls
\* connectToLocalStorage goes from "new" to createProvider
NestedConfigs ==
    { [shape |-> "deep", privateStatePaths |-> <<>>],
      [shape |-> "deep", privateStatePaths |-> <<PathEntry(<<"nested", "pub">>)>>] }

InitNested ==
    /\ \E cfg \in NestedConfigs :
          /\ opts = [Options(cfg, FALSE, "main") EXCEPT !.nestedSetters = TRUE]
          /\ cfState = [c \in Ctx |-> DefaultState(cfg.shape)]
          /\ heap = [c \in Ctx |-> DefaultObjects(cfg.shape)]
    /\ localStorage = NoItem
    /\ windowName = [c \in Ctx |-> IF c = "w1" THEN "" ELSE "child"]
    /\ Start

\* the value a key has, if it has one
Present(c, k) == IF Has(provState[c], k) THEN {provState[c][k]} ELSE {}

NextNested ==
    \/ \E c \in Ctx : Connect(c)
    \/ \E c \in Ctx : CreateProvider(c)
    \/ \E c \in Ctx : Mount(c)
    \/ \E c \in Ctx : Commit(c)
    \/ \E c \in Ctx : \E v \in SetVals \cup Present(c, "public") :
          SetterCall(c, "public", v, FALSE)
    \/ \E c \in Ctx : \E j \in 1..Len(nestedSetterPaths[c]) : \E v \in NestedArgs(c, j) :
          NestedSetterCall(c, j, v)
    \/ \E c \in Ctx : HandleStorage(c)

SpecNested == InitNested /\ [][NextNested]_vars

\* ------------------------------- nested setters called without awaiting
\* the value a window passes to a nested setter: each path its own
SiblingVals == {5, 6}

InitSiblings ==
    /\ \E cfg \in NestedConfigs :
          /\ opts = [Options(cfg, FALSE, "main") EXCEPT !.nestedSetters = TRUE]
          /\ cfState = [c \in Ctx |-> DefaultState(cfg.shape)]
          /\ heap = [c \in Ctx |-> DefaultObjects(cfg.shape)]
    /\ localStorage = NoItem
    /\ \E n1 \in {"", "main"} :
          windowName = [c \in Ctx |-> IF c = "w1" THEN n1 ELSE "child"]
    /\ phase = [c \in Ctx |-> IF c = "w1" THEN "new" ELSE "absent"]
    /\ NothingPending
    /\ call = NoCall
    /\ ret = NoCall

\* one window: no other window writes the entry, no storage event arrives
NextSiblings ==
    \/ \E c \in Ctx : Connect(c)
    \/ \E c \in Ctx : CreateProvider(c)
    \/ \E c \in Ctx : Mount(c)
    \/ \E c \in Ctx : Commit(c)
    \/ \E c \in Ctx : \E j \in 1..Len(nestedSetterPaths[c]) : \E v \in SiblingVals :
          NestedSetterWithin(c, j, v, MaxSiblings)

SpecSiblings == InitSiblings /\ [][NextSiblings]_vars

\* an application with reducers: a provider window and a subscriber window
InitDispatch ==
    /\ \E cfg \in Configs :
          /\ opts = Options(cfg, FALSE, "main")
          /\ cfState = [c \in Ctx |-> DefaultState(cfg.shape)]
          /\ heap = [c \in Ctx |-> DefaultObjects(cfg.shape)]
    /\ localStorage = NoItem
    /\ windowName = [c \in Ctx |-> IF c = "w1" THEN "" ELSE "child"]
    /\ Start

NextDispatch ==
    \/ \E c \in Ctx : Connect(c)
    \/ \E c \in Ctx : CreateProvider(c)
    \/ \E c \in Ctx : Mount(c)
    \/ \E c \in Ctx : Commit(c)
    \/ \E c \in Ctx, v \in SetVals : SetStateCall(c, "public", v, FALSE)
    \/ \E c \in Ctx, v \in SetVals : SetterCall(c, "public", v, FALSE)
    \/ \E c \in Ctx, v \in SetVals, known \in BOOLEAN : DispatchCall(c, "public", v, known)
    \/ \E c \in Ctx : HandleStorage(c)

\* ------------------------------------------------------------- getters
\* what a read gives: a value, undefined, or a TypeError
Val(v) == [kind |-> "value", v |-> v]
Undef == [kind |-> "undefined", v |-> 0]
Thrown == [kind |-> "threw", v |-> 0]

\* currentPath[key]: a property of an object; undefined for a key the object
\* does not have and for a number; a TypeError on undefined
Member(cur, key, h) ==
    IF cur.kind # "value" THEN Thrown
    ELSE IF IsRef(cur.v)
         THEN IF Has(h[Addr(cur.v)], key) THEN Val(h[Addr(cur.v)][key]) ELSE Undef
         ELSE Undef

RECURSIVE GetWalk(_, _, _, _)
GetWalk(cur, h, nsPath, i) ==
    IF i > Len(nsPath) \/ cur.kind = "threw" THEN cur
    ELSE GetWalk(Member(cur, nsPath[i], h), h, nsPath, i + 1)

\* getNestedValue(state, nsPath); with a path of one key it is state[s]
getNestedValue(state, h, nsPath) ==
    GetWalk(IF Has(state, nsPath[1]) THEN Val(state[nsPath[1]]) ELSE Undef, h, nsPath, 2)

\* (mutant) the getter reads the state createProvider was called with
GetterStateCaptured(c) == cfState[c]

\* this.state of the Provider the getters are bound to
GetterState(c) == provState[c]

\* a generated getter, top-level or nested, called by a component
GetterCall(c, j) ==
    /\ phase[c] = "mounted" /\ ~Busy(c)
    /\ j \in 1..Len(getterPaths[c])
    /\ last' = [NoLast EXCEPT !.op = "GetterCall", !.ctx = c, !.path = getterPaths[c][j],
                              !.val = getNestedValue(GetterState(c), heap[c], getterPaths[c][j])]
    /\ UNCHANGED <<nestedSetterPaths, winVars, helperVars>>
    /\ UNCHANGED <<opts, windowName, phase, bind, cfState, provState, setterKeys, queue, events,
                   heap, localStorage, script, freeCalls, ghost>>

\* the README's application with nested state, not connected to
\* localStorage, with components that call setters and getters
NextGetters ==
    \/ \E c \in Ctx : CreateProvider(c)
    \/ \E c \in Ctx : Mount(c)
    \/ \E c \in Ctx : Commit(c)
    \/ \E c \in Ctx : \E v \in SetVals \cup Present(c, "public") :
          SetterCall(c, "public", v, FALSE)
    \/ \E c \in Ctx : \E j \in 1..Len(nestedSetterPaths[c]) : \E v \in NestedArgs(c, j) :
          NestedSetterCall(c, j, v)
    \/ \E c \in Ctx : \E j \in 1..Len(getterPaths[c]) : GetterCall(c, j)

InitGetters ==
    /\ InitNested
    /\ opts.privateStatePaths = <<>>

SpecGetters == InitGetters /\ [][NextGetters]_vars

SpecDispatch == InitDispatch /\ [][NextDispatch]_vars

\* an application that may have left the name out of connectToLocalStorage,
\* catches the error and goes on
InitSetup ==
    /\ \E cfg \in Configs, name \in {StorageName, NoName} :
          /\ opts = [Options(cfg, FALSE, "main") EXCEPT !.name = name]
          /\ cfState = [c \in Ctx |-> DefaultState(cfg.shape)]
          /\ heap = [c \in Ctx |-> DefaultObjects(cfg.shape)]
    /\ localStorage = NoItem
    /\ \E n2 \in {"child", "main"} :
          windowName = [c \in Ctx |-> IF c = "w1" THEN "" ELSE n2]
    /\ Start

NextSetup ==
    \/ \E c \in Ctx : Connect(c)
    \/ \E c \in Ctx : CreateProvider(c)
    \/ \E c \in Ctx : Mount(c)
    \/ \E c \in Ctx : Commit(c)
    \/ \E c \in Ctx, v \in SetVals, cb \in BOOLEAN : SetStateCall(c, "public", v, cb)
    \/ \E c \in Ctx : HandleStorage(c)

SpecSetup == InitSetup /\ [][NextSetup]_vars

\* ------------------------------------- another script of the same origin
\* texts that are not JSON: the empty string and "{"
MalformedTexts == {<<>>, <<LBrace>>}

\* a script outside the library sets the entry of the storage name, once every
\* window has run connectToLocalStorage; each window that listens gets a
\* storage event when the stored value changes
ForeignWrite(text) ==
    /\ \A c \in Ctx : phase[c] # "new"
    /\ freeCalls < MaxFree
    /\ freeCalls' = freeCalls + 1
    /\ LET changed == ~localStorage.present \/ localStorage.text # text
           ev == [d \in Ctx |-> IF changed /\ Listening(d) THEN events[d] + 1 ELSE events[d]]
       IN /\ EventsOk(ev)
          /\ events' = ev
    /\ localStorage' = Item(text)
    /\ last' = [NoLast EXCEPT !.op = "ForeignWrite"]
    /\ UNCHANGED <<nestedSetterPaths, winVars, helperVars>>
    /\ UNCHANGED <<opts, windowName, phase, bind, cfState, provState, setterKeys, queue,
                   heap, script, ghost>>

InitForeign ==
    /\ \E cfg \in {x \in Configs : x.shape = "flat"}, init \in BOOLEAN :
          /\ opts = Options(cfg, init, "main")
          /\ cfState = [c \in Ctx |-> DefaultState(cfg.shape)]
          /\ heap = [c \in Ctx |-> DefaultObjects(cfg.shape)]
          /\ localStorage \in {NoItem, Item(PriorText(cfg))}
    /\ \E n2 \in {"child", "main"} :
          windowName = [c \in Ctx |-> IF c = "w1" THEN "" ELSE n2]
    /\ Start

NextForeign ==
    \/ \E c \in Ctx : Connect(c)
    \/ \E c \in Ctx : CreateProvider(c)
    \/ \E c \in Ctx : Mount(c)
    \/ \E c \in Ctx : Commit(c)
    \/ \E c \in Ctx, v \in SetVals, cb \in BOOLEAN : SetStateCall(c, "public", v, cb)
    \/ \E c \in Ctx : HandleStorage(c)
    \/ \E text \in MalformedTexts : ForeignWrite(text)

SpecForeign == InitForeign /\ [][NextForeign]_vars

\* ------------------------------------------ two windows that both write
\* the value a window sets: each window its own
RaceVal(c) == IF c = "w1" THEN 5 ELSE 6

InitRace ==
    /\ \E cfg \in {x \in Configs : x.shape = "flat"} :
          /\ opts = Options(cfg, FALSE, "main")
          /\ cfState = [c \in Ctx |-> DefaultState(cfg.shape)]
          /\ heap = [c \in Ctx |-> DefaultObjects(cfg.shape)]
          /\ localStorage \in {NoItem, Item(PriorText(cfg))}
    /\ \E n2 \in {"child", "main"} :
          windowName = [c \in Ctx |-> IF c = "w1" THEN "" ELSE n2]
    /\ phase = [c \in Ctx |-> "new"]
    /\ race = [NoRace EXCEPT !.on = TRUE]
    /\ Quiet
    /\ call = NoCall
    /\ ret = NoCall

NextRace ==
    \/ \E c \in Ctx : Connect(c)
    \/ \E c \in Ctx : CreateProvider(c)
    \/ \E c \in Ctx : Mount(c)
    \/ \E c \in Ctx : Commit(c)
    \/ \E c \in Ctx, k \in {"secret", "public"} :
          SetStateWithin(c, k, RaceVal(c), FALSE, MaxRace)
    \/ \E c \in Ctx : HandleStorage(c)

SpecRace == InitRace /\ [][NextRace]_vars

\* ------------------------------------- one setState, then no user operation
InitSettle ==
    /\ \E cfg \in {x \in Configs : x.shape = "flat"} :
          /\ opts = Options(cfg, FALSE, "main")
          /\ cfState = [c \in Ctx |-> DefaultState(cfg.shape)]
          /\ heap = [c \in Ctx |-> DefaultObjects(cfg.shape)]
          /\ localStorage \in {NoItem, Item(PriorText(cfg))}
    /\ \E n1 \in {"", "main"}, n2 \in {"child", "main"} :
          windowName = [c \in Ctx |-> IF c = "w1" THEN n1 ELSE n2]
    /\ phase = [c \in Ctx |-> "new"]
    /\ NothingPending
    /\ call = NoCall
    /\ ret = NoCall

\* the application calls setState once; the rest is the listeners and React
NextSettle ==
    \/ \E c \in Ctx : Connect(c)
    \/ \E c \in Ctx : CreateProvider(c)
    \/ \E c \in Ctx : Mount(c)
    \/ \E c \in Ctx, k \in {"secret", "public"} : SetStateWithin(c, k, 5, FALSE, 1)
    \/ \E c \in Ctx : Commit(c)
    \/ \E c \in Ctx : HandleStorage(c)

\* ENABLED Commit(c), written out: updates are pending in the mounted Provider
\* and nothing else has to run first
CommitEnabled(c) ==
    /\ phase[c] = "mounted"
    /\ queue[c] # <<>>
    /\ ~ContinuationDue(c)
    /\ LET q == queue[c]
           st == ProcessUpdateQueue(q, provState[c])
           acc == RunCallbacks(c, Len(q), 1,
                               [heap |-> heap[c], ls |-> localStorage, ev |-> events,
                                log |-> <<Ev("commit", 0, st, localStorage)>>], st)
       IN EventsOk(acc.ev)

\* WF_vars(Commit(c)) with the enabling condition written out
CommitFair(c) == ([]<>~CommitEnabled(c)) \/ ([]<><<Commit(c)>>_vars)

\* React commits every pending update, and the browser delivers every
\* storage event to its listener
SpecSettle ==
    /\ InitSettle /\ [][NextSettle]_vars
    /\ \A c \in Ctx : CommitFair(c) /\ WF_vars(HandleStorage(c))

\* ----------------------------------------------- window manager, unload
\* the urls an application passes to windowManager.open; "" is a missing one
OpenUrls == {"", "/page"}

\* (mutant) the registry holds the last opened window only
OpenEntryOnly(registry, name) == {name}

\* this.windows[name] = window.open(url, name, ...): a handle is known by the
\* name of the window it refers to
OpenEntry(registry, name) == registry \cup {name}

\* (mutant) close() is sent, the entry stays
CloseEntryKept(registry, name) == registry

\* delete this.windows[name]
CloseEntry(registry, name) == registry \ {name}

\* windowManager.open(url, name, params): throws without url or name, else
\* the browser opens the window called name and the handle is stored
Open(c, url, name) ==
    /\ phase[c] = "mounted" /\ bind[c] /\ ~Busy(c)
    /\ freeCalls < MaxOpen
    /\ freeCalls' = freeCalls + 1
    /\ UNCHANGED closeLog
    /\ IF url = "" \/ name = ""
       THEN /\ last' = [NoLast EXCEPT !.op = "Open", !.ctx = c, !.bound = bind[c],
                                      !.registry = windows[c], !.name = name, !.threw = TRUE]
            /\ UNCHANGED <<windows, ghost, phase>>
       ELSE /\ windows' = [windows EXCEPT ![c] = OpenEntry(windows[c], name)]
            /\ ghost' = [ghost EXCEPT ![c].opened = ghost[c].opened \cup {name}]
            /\ phase' = [d \in Ctx |-> IF phase[d] = "absent" /\ windowName[d] = name
                                      THEN "new" ELSE phase[d]]
            /\ last' = [NoLast EXCEPT !.op = "Open", !.ctx = c, !.bound = bind[c],
                                      !.registry = windows[c], !.name = name,
                                      !.closed = {n \in OpenNames : closeLog'[n] > closeLog[n]}]
    /\ UNCHANGED <<cleared, getterPaths, race, nestedSetterPaths, helperVars>>
    /\ UNCHANGED <<opts, windowName, bind, cfState, provState, setterKeys, queue, events,
                   heap, localStorage, script>>

\* windowManager.close(name): close the handle if there is one, delete the entry
CloseChild(c, name) ==
    /\ phase[c] = "mounted" /\ bind[c] /\ ~Busy(c)
    /\ closeLog' = IF name \in windows[c]
                   THEN [closeLog EXCEPT ![name] = closeLog[name] + 1] ELSE closeLog
    /\ windows' = [windows EXCEPT ![c] = CloseEntry(windows[c], name)]
    /\ ghost' = [ghost EXCEPT ![c].opened = ghost[c].opened \ {name}]
    /\ last' = [NoLast EXCEPT !.op = "CloseChild", !.ctx = c, !.bound = bind[c],
                              !.registry = windows[c], !.name = name,
                              !.closed = {n \in OpenNames : closeLog'[n] > closeLog[n]}]
    /\ UNCHANGED <<cleared, getterPaths, race, nestedSetterPaths, helperVars>>
    /\ UNCHANGED <<opts, windowName, phase, bind, cfState, provState, setterKeys, queue, events,
                   heap, localStorage, script, freeCalls>>

\* windowManager.getChildren(): return this.windows
GetChildren(c) ==
    /\ phase[c] = "mounted" /\ bind[c] /\ ~Busy(c)
    /\ last' = [NoLast EXCEPT !.op = "GetChildren", !.ctx = c, !.bound = bind[c],
                              !.registry = windows[c]]
    /\ UNCHANGED <<winVars, nestedSetterPaths, helperVars>>
    /\ UNCHANGED <<opts, windowName, phase, bind, cfState, provState, setterKeys, queue, events,
                   heap, localStorage, script, freeCalls, ghost>>

\* localStorage.removeItem: the other windows that listen are notified when
\* there was an entry
RemoveItem(acc, c) ==
    [acc EXCEPT !.ls = NoItem,
                !.ev = [d \in Ctx |-> IF acc.ls.present /\ d # c /\ Listening(d)
                                      THEN acc.ev[d] + 1 ELSE acc.ev[d]]]

\* (mutant) only the provider window gets the unload handler
HandlerRegisteredProviderOnly(c) ==
    bind[c] /\ windowName[c] = storageOptions.providerWindow

\* componentDidMount: the condition under which handleUnload is registered;
\* storageOptions is {} in a window that is not connected
HandlerRegistered(c) ==
    bind[c] /\ (windowName[c] = storageOptions.providerWindow \/ opts.removeChildrenOnUnload)

\* (mutant) every window clears the entry
ClearsStorageAnyWindow(c) == opts.clearStorageOnUnload

\* the condition under which handleUnload removes the entry
ClearsStorage(c) == opts.clearStorageOnUnload /\ storageOptions.providerWindow = windowName[c]

\* (mutant) the handler removes the entry and closes nothing
handleUnloadStorageOnly(acc, c) ==
    IF ClearsStorage(c) THEN RemoveItem(acc, c) ELSE acc

\* handleUnload(e)
handleUnload(acc, c) ==
    LET a1 == IF ClearsStorage(c) THEN RemoveItem(acc, c) ELSE acc
    IN IF opts.removeChildrenOnUnload
       THEN [a1 EXCEPT !.closeLog = [n \in OpenNames |->
                IF n \in windows[c] THEN a1.closeLog[n] + 1 ELSE a1.closeLog[n]]]
       ELSE a1

\* the window closes or leaves the page: "beforeunload", then "unload", both
\* with handleUnload as their listener
UnloadWindow(c, op) ==
    /\ phase[c] = "mounted" /\ ~Busy(c)
    /\ LET a0 == [ls |-> localStorage, ev |-> events, closeLog |-> closeLog]
           a2 == IF HandlerRegistered(c) THEN handleUnload(handleUnload(a0, c), c) ELSE a0
       IN /\ EventsOk(a2.ev)
          /\ localStorage' = a2.ls
          /\ events' = [a2.ev EXCEPT ![c] = 0]
          /\ closeLog' = a2.closeLog
          /\ last' = [NoLast EXCEPT !.op = op, !.ctx = c, !.bound = bind[c],
                                    !.registry = windows[c],
                                    !.closed = {n \in OpenNames : a2.closeLog[n] > closeLog[n]}]
    /\ cleared' = IF HandlerRegistered(c) /\ ClearsStorage(c)
                  THEN [done |-> TRUE,
                        atRest |-> \A d \in Ctx \ {c} :
                                      /\ phase[d] \in {"mounted", "closed"}
                                      /\ events[d] = 0 /\ queue[d] = <<>>]
                  ELSE cleared
    /\ phase' = [phase EXCEPT ![c] = "closed"]
    /\ queue' = [queue EXCEPT ![c] = <<>>]
    /\ UNCHANGED <<windows, getterPaths, race, nestedSetterPaths, helperVars>>
    /\ UNCHANGED <<opts, windowName, bind, cfState, provState, setterKeys,
                   heap, script, freeCalls, ghost>>

\* the user closes the window or leaves the page
Unload(c) == UnloadWindow(c, "Unload")

\* the browser carries out a close() that a handle of this window received;
\* a window whose Provider has not mounted has no unload listener yet
CloseDelivered(c) ==
    /\ phase[c] \notin {"absent", "closed"}
    /\ windowName[c] \in OpenNames
    /\ closeLog[windowName[c]] > 0
    /\ IF phase[c] = "mounted"
       THEN UnloadWindow(c, "CloseDelivered")
       ELSE /\ phase' = [phase EXCEPT ![c] = "closed"]
            /\ last' = [NoLast EXCEPT !.op = "CloseDelivered", !.ctx = c, !.bound = bind[c]]
            /\ UNCHANGED <<winVars, nestedSetterPaths, helperVars>>
            /\ UNCHANGED <<opts, windowName, bind, cfState, provState, setterKeys, queue,
                           events, heap, localStorage, script, freeCalls, ghost>>

\* an application with a provider window and a subscriber window, every
\* choice of the two unload options
InitUnload ==
    /\ \E cfg \in {x \in Configs : x.shape = "flat"}, rm \in BOOLEAN, clr \in BOOLEAN :
          /\ opts = [Options(cfg, FALSE, "main") EXCEPT !.removeChildrenOnUnload = rm,
                                                       !.clearStorageOnUnload = clr]
          /\ cfState = [c \in Ctx |-> DefaultState(cfg.shape)]
          /\ heap = [c \in Ctx |-> DefaultObjects(cfg.shape)]
    /\ localStorage = NoItem
    /\ windowName = [c \in Ctx |-> IF c = "w1" THEN "" ELSE "child"]
    /\ Start

\* the windows start, open and close child windows, are closed; nobody calls
\* a setter or setState
NextUnload ==
    \/ \E c \in Ctx : Connect(c)
    \/ \E c \in Ctx : CreateProvider(c)
    \/ \E c \in Ctx : Mount(c)
    \/ \E c \in Ctx : Commit(c)
    \/ \E c \in Ctx : HandleStorage(c)
    \/ \E c \in Ctx, url \in OpenUrls, name \in OpenNames \cup {""} : Open(c, url, name)
    \/ \E c \in Ctx, name \in OpenNames : CloseChild(c, name)
    \/ \E c \in Ctx : GetChildren(c)
    \/ \E c \in Ctx : Unload(c)

SpecUnload == InitUnload /\ [][NextUnload]_vars

\* the provider window alone; its child window "child" exists once a window
\* manager has opened it; removeChildrenOnUnload in every window
InitCascade ==
    /\ \E cfg \in {x \in Configs : x.shape = "flat" /\ x.privateStatePaths = <<>>},
          clr \in BOOLEAN :
          /\ opts = [Options(cfg, FALSE, "main") EXCEPT !.clearStorageOnUnload = clr]
          /\ cfState = [c \in Ctx |-> DefaultState(cfg.shape)]
          /\ heap = [c \in Ctx |-> DefaultObjects(cfg.shape)]
    /\ localStorage = NoItem
    /\ windowName = [c \in Ctx |-> IF c = "w1" THEN "" ELSE "child"]
    /\ phase = [c \in Ctx |-> IF c = "w1" THEN "new" ELSE "absent"]
    /\ NothingPending
    /\ call = NoCall
    /\ ret = NoCall

NextCascade ==
    \/ \E c \in Ctx : Connect(c)
    \/ \E c \in Ctx : CreateProvider(c)
    \/ \E c \in Ctx : Mount(c)
    \/ \E c \in Ctx : Commit(c)
    \/ \E c \in Ctx : HandleStorage(c)
    \/ \E c \in Ctx, url \in OpenUrls, name \in OpenNames \cup {""} : Open(c, url, name)
    \/ \E c \in Ctx, name \in OpenNames : CloseChild(c, name)
    \/ \E c \in Ctx : Unload(c)
    \/ \E c \in Ctx : CloseDelivered(c)

\* the browser does not leave a close() undone for ever
SpecCascade ==
    InitCascade /\ [][NextCascade]_vars /\ \A c \in Ctx : WF_vars(CloseDelivered(c))

\* ------------------------------------------- helper functions on their own
\* no window runs: a helper is called with arguments and returns
NoWindows ==
    /\ opts = Options([shape |-> "flat", privateStatePaths |-> <<>>], FALSE, "")
    /\ cfState = [c \in Ctx |-> EmptyObj]
    /\ heap = [c \in Ctx |-> <<>>]
    /\ localStorage = NoItem
    /\ windowName = [c \in Ctx |-> ""]
    /\ NoWindowStarted

\* ------------------------------------------------------ accessor names
\* A name is a sequence of characters.  The characters of the model: a
\* lowercase letter, an uppercase letter, a digit and the underscore.
Alphabet == {"a", "A", "1", "_"}
\* String.prototype.toUpperCase on one character
toUpperCase(ch) == IF ch = "a" THEN "A" ELSE ch
Names == UNION {[1..n -> Alphabet] : n \in 1..MaxNameLen}

\* null; no name is empty
Null == <<>>
SetPrefix == <<"s", "e", "t">>
GetPrefix == <<"g", "e", "t">>

\* (mutant) the prefix is put in front of the name as it is
formatStateNameAsIs(name, prefix) ==
    IF name[1] = toUpperCase(name[1]) THEN Null ELSE prefix \o name

formatStateName(name, prefix) ==
    IF name[1] = toUpperCase(name[1]) THEN Null
    ELSE prefix \o <<toUpperCase(name[1])>> \o Tail(name)

\* the loop "for (let s in state)" of createStateSetters and createStateGetters:
\* the registry maps an accessor name to the key its accessor is for
RECURSIVE AddAccessors(_, _, _, _, _)
AddAccessors(keys, i, prefix, ignored, registry) ==
    IF i > Len(keys) THEN registry
    ELSE LET formattedName == formatStateName(keys[i], prefix)
         IN AddAccessors(keys, i + 1, prefix, ignored,
                IF formattedName # Null /\ keys[i] \notin ignored
                THEN Put(registry, formattedName, keys[i]) ELSE registry)

createStateSetters(keys, ignoredSetters) == AddAccessors(keys, 1, SetPrefix, ignoredSetters, EmptyObj)
createStateGetters(keys, ignoredGetters) == AddAccessors(keys, 1, GetPrefix, ignoredGetters, EmptyObj)

\* a state with two top-level keys, an application that ignores none or the
\* first of them, with dynamic setters on or off
InitNames ==
    /\ NoWindows
    /\ \E k1 \in Names, dyn \in BOOLEAN, ign \in BOOLEAN :
       \E k2 \in Names \ {k1} :
          call = [fn |-> "createAccessors", keys |-> <<k1, k2>>, dynamicSetters |-> dyn,
                  dynamicGetters |-> TRUE,
                  ignored |-> IF ign THEN {k1} ELSE {}]
    /\ ret = NoCall

\* createProvider, GETTER CREATION and SETTER CREATION, no custom accessors
CreateAccessors ==
    /\ call.fn = "createAccessors" /\ ret = NoCall
    /\ ret' = [fn |-> "createAccessors",
               getters |-> IF call.dynamicGetters
                           THEN createStateGetters(call.keys, call.ignored) ELSE EmptyObj,
               setters |-> IF call.dynamicSetters
                           THEN createStateSetters(call.keys, call.ignored) ELSE EmptyObj]
    /\ UNCHANGED <<call, windowVars>>

NextNames == CreateAccessors

SpecNames == InitNames /\ [][NextNames]_vars

\* ------------------------------------------------ the value of the context
PROTECTED_NAMESPACES ==
    {"props", "context", "refs", "updater", "state", "setters", "getters", "reducers",
     "generateDispatchers", "reducersWithDispatchers", "methods", "_boundNamespacedMethods",
     "bindToLocalStorage", "storageOptions", "updateStateFromLocalStorage", "setStateMaster",
     "setState", "_reactInternals", "_reactInternalInstance", "windows"}

\* Provider constructor: the loop over Object.entries(namespacedMethods); the
\* result tells whether it threw and which groups were bound
RECURSIVE BindNamespaced(_, _, _)
BindNamespaced(namespacedMethods, i, boundGroups) ==
    IF i > Len(namespacedMethods) THEN [threw |-> FALSE, groups |-> boundGroups]
    ELSE IF namespacedMethods[i] \in PROTECTED_NAMESPACES
         THEN [threw |-> TRUE, groups |-> boundGroups]
         ELSE BindNamespaced(namespacedMethods, i + 1, boundGroups \cup {namespacedMethods[i]})

\* render: the value before renaming; every entry is named after what it holds
ContextValue(groups, hasReducers, bound) ==
    LET keys == {"state", "setters", "getters", "methods", "constants"} \cup groups
                \cup (IF hasReducers THEN {"reducers"} ELSE {})
                \cup (IF bound THEN {"windowManager"} ELSE {})
    IN [k \in keys |-> k]

\* (mutant) the name is tested only when the key to rename is in the value
RECURSIVE RenameFoundOnly(_, _, _)
RenameFoundOnly(renameMap, i, value) ==
    IF i > Len(renameMap) THEN [threw |-> FALSE, value |-> value]
    ELSE LET key == renameMap[i].from
             to == renameMap[i].to
         IN IF Has(value, key)
            THEN IF to \in PROTECTED_NAMESPACES THEN [threw |-> TRUE, value |-> value]
                 ELSE RenameFoundOnly(renameMap, i + 1, Remove(Put(value, to, value[key]), key))
            ELSE RenameFoundOnly(renameMap, i + 1, value)

\* render: the loop over Object.keys(renameMap)
RECURSIVE Rename(_, _, _)
Rename(renameMap, i, value) ==
    IF i > Len(renameMap) THEN [threw |-> FALSE, value |-> value]
    ELSE LET key == renameMap[i].from
             to == renameMap[i].to
         IN IF to \in PROTECTED_NAMESPACES THEN [threw |-> TRUE, value |-> value]
            ELSE Rename(renameMap, i + 1,
                        IF Has(value, key) THEN Remove(Put(value, to, value[key]), key)
                        ELSE value)

\* new Provider(props) and its first render: what the Context.Provider gets
\* as its value, if anything
ProviderValue(o) ==
    LET b == BindNamespaced(o.namespacedMethods, 1, {})
        r == Rename(o.renameMap, 1, ContextValue(b.groups, o.reducers, o.bound))
    IN IF b.threw THEN [fn |-> "Provider", threw |-> TRUE, at |-> "constructor",
                        delivered |-> FALSE, value |-> EmptyObj]
       ELSE IF r.threw THEN [fn |-> "Provider", threw |-> TRUE, at |-> "render",
                             delivered |-> FALSE, value |-> EmptyObj]
       ELSE [fn |-> "Provider", threw |-> FALSE, at |-> "", delivered |-> TRUE,
             value |-> r.value]

\* the keys an application renames, one of them not in the value, and the
\* names it renames them to
RenameFrom == {"state", "setters", "missing"}
RenameTo == {"data", "props", "setters", "api"}
RenameEntries == [from : RenameFrom, to : RenameTo]
RenameMaps ==
    {m \in UNION {[1..n -> RenameEntries] : n \in 0..MaxRenames} :
        \A i \in 1..Len(m), j \in 1..Len(m) : i # j => m[i].from # m[j].from}

\* the groups given to addNamespacedMethods, in the order of their keys
NamespacedChoices == {<<>>, <<"api">>, <<"refs">>, <<"api", "state">>, <<"state", "api">>}

InitBundle ==
    /\ NoWindows
    /\ \E ns \in NamespacedChoices, m \in RenameMaps, red \in BOOLEAN, bound \in BOOLEAN :
          call = [fn |-> "Provider", namespacedMethods |-> ns, renameMap |-> m,
                  reducers |-> red, bound |-> bound]
    /\ ret = NoCall

MountProvider ==
    /\ call.fn = "Provider" /\ ret = NoCall
    /\ ret' = ProviderValue(call)
    /\ UNCHANGED <<call, windowVars>>

NextBundle == MountProvider

SpecBundle == InitBundle /\ [][NextBundle]_vars

\* ------------------------------------------------- the setter registry
\* nsPath.join("_")
RECURSIVE Join(_, _)
Join(nsPath, i) ==
    IF i = Len(nsPath) THEN nsPath[i] ELSE nsPath[i] \o <<"_">> \o Join(nsPath, i + 1)

\* the loop "for (let nsPath of nestedPaths)" of createStateSetters
RECURSIVE AddNestedAccessors(_, _, _, _, _)
AddNestedAccessors(routes, i, prefix, ignored, registry) ==
    IF i > Len(routes) THEN registry
    ELSE LET nestedName == Join(routes[i], 1)
             formattedName == formatStateName(nestedName, prefix)
         IN AddNestedAccessors(routes, i + 1, prefix, ignored,
                IF formattedName # Null /\ nestedName \notin ignored
                THEN Put(registry, formattedName, nestedName) ELSE registry)

\* createStateSetters(state, ignoredSetters, nestedSetters)
createStateSettersOf(keys, routes, ignoredSetters, nestedSetters) ==
    IF nestedSetters
    THEN AddNestedAccessors(routes, 1, SetPrefix, ignoredSetters,
                            createStateSetters(keys, ignoredSetters))
    ELSE createStateSetters(keys, ignoredSetters)

\* the state {a: 1, aa: {a: 1}}: its keys and the one nested path
RegKeys == << <<"a">>, <<"a", "a">> >>
RegRoutes == << << <<"a", "a">>, <<"a">> >> >>
\* the names an application gives its custom setters: setA (the name of a
\* top-level dynamic setter), setAa_a (of the nested one), and a name of its own
SetA == <<"s", "e", "t", "A">>
SetAa_a == <<"s", "e", "t", "A", "a", "_", "a">>
OwnName == <<"a">>
CustomNames == {SetA, SetAa_a, OwnName}

\* the user setters createProvider deletes: those in dynamicKeys
Blocked(custom, dynamicKeys) == custom \cap dynamicKeys

\* { ...dynamic, ...custom }: where each name of the registry comes from
Merge(dynamic, custom) ==
    [n \in (DOMAIN dynamic) \cup custom |-> IF n \in custom THEN "custom" ELSE "dynamic"]

\* createProvider, SETTER CREATION
SetterCreation(o) ==
    LET all == IF o.dynamicSetters
               THEN createStateSettersOf(RegKeys, RegRoutes, {}, o.nestedSetters)
               ELSE EmptyObj
    IN IF o.allowSetterOverwrite
       THEN [threw |-> FALSE, warned |-> {}, setters |-> Merge(all, o.custom)]
       ELSE LET dynamicKeys == DOMAIN createStateSetters(RegKeys, {})
                blocked == Blocked(o.custom, dynamicKeys)
            IN IF blocked # {} /\ o.developmentWarnings /\ o.overwriteProtectionLevel >= 2
               THEN [threw |-> TRUE, warned |-> {}, setters |-> EmptyObj]
               ELSE [threw |-> FALSE,
                     warned |-> IF o.developmentWarnings /\ o.overwriteProtectionLevel = 1
                                THEN blocked ELSE {},
                     setters |-> Merge(all, o.custom \ blocked)]

InitRegistry ==
    /\ NoWindows
    /\ \E allow \in BOOLEAN, level \in 0..MaxLevel, warn \in BOOLEAN, dyn \in BOOLEAN,
          nest \in BOOLEAN, custom \in SUBSET CustomNames :
          call = [fn |-> "createProvider", allowSetterOverwrite |-> allow,
                  overwriteProtectionLevel |-> level, developmentWarnings |-> warn,
                  dynamicSetters |-> dyn, nestedSetters |-> nest, custom |-> custom]
    /\ ret = NoCall

CreateSetters ==
    /\ call.fn = "createProvider" /\ ret = NoCall
    /\ ret' = SetterCreation(call)
    /\ UNCHANGED <<call, windowVars>>

NextRegistry == CreateSetters

SpecRegistry == InitRegistry /\ [][NextRegistry]_vars

\* ------------------------------------------------- the getter registry
\* the options the constructor copies to the instance (this.dynamicSetters =
\* this.options.dynamicSetters, ...)
InstanceOptions ==
    {"dynamicSetters", "dynamicGetters", "allowSetterOverwrite", "developmentWarnings",
     "overwriteProtectionLevel", "nestedSetters"}

\* this[name] in createProvider: undefined for an option that was not copied
ThisOption(o, name) ==
    IF name \in InstanceOptions THEN [defined |-> TRUE, value |-> o[name]]
    ELSE [defined |-> FALSE, value |-> FALSE]

\* createStateGetters(state, ignoredGetters = [], nestedGetters = true): the
\* default stands in for an undefined argument
createStateGettersOf(keys, routes, ignoredGetters, nestedGettersArg) ==
    LET nestedGetters == IF nestedGettersArg.defined THEN nestedGettersArg.value ELSE TRUE
    IN IF nestedGetters
       THEN AddNestedAccessors(routes, 1, GetPrefix, ignoredGetters,
                               createStateGetters(keys, ignoredGetters))
       ELSE createStateGetters(keys, ignoredGetters)

\* createProvider, GETTER CREATION, no custom getters
GetterCreation(o) ==
    IF ThisOption(o, "dynamicGetters").value
    THEN createStateGettersOf(o.keys, o.routes, o.ignored, ThisOption(o, "nestedGetters"))
    ELSE EmptyObj

\* a state {k1: 1, k2: {k1: 1}}, an application that sets nestedGetters or
\* leaves the default, with dynamic getters on or off, ignoring k1 or nothing
InitGetterRegistry ==
    /\ NoWindows
    /\ \E k1 \in Names, dyn \in BOOLEAN, nest \in BOOLEAN, ign \in BOOLEAN :
       \E k2 \in Names \ {k1} :
          call = [fn |-> "createGetters", keys |-> <<k1, k2>>, routes |-> << <<k2, k1>> >>,
                  dynamicGetters |-> dyn, nestedGetters |-> nest,
                  ignored |-> IF ign THEN {k1} ELSE {}]
    /\ ret = NoCall

CreateGetters ==
    /\ call.fn = "createGetters" /\ ret = NoCall
    /\ ret' = [fn |-> "createGetters", getters |-> GetterCreation(call)]
    /\ UNCHANGED <<call, windowVars>>

NextGetterRegistry == CreateGetters

SpecGetterRegistry == InitGetterRegistry /\ [][NextGetterRegistry]_vars

\* ------------------------------------- the registries of one state shape
\* the names of the nested keys, and the names of the top-level keys: a
\* top-level key may hold an underscore between two names
SegmentNames == UNION {[1..n -> Alphabet] : n \in 1..(MaxNameLen - 1)}
TopLevelNames == Names \cup {a \o <<"_">> \o b : a \in SegmentNames, b \in SegmentNames}

\* a state {k1: 1, k2: {k3: 1}} with nestedSetters and nestedGetters on
InitShape ==
    /\ NoWindows
    /\ \E k1 \in TopLevelNames, k2 \in SegmentNames, k3 \in SegmentNames :
          /\ k1 # k2
          /\ call = [fn |-> "createRegistries", keys |-> <<k1, k2>>, routes |-> << <<k2, k3>> >>]
    /\ ret = NoCall

\* createProvider, GETTER CREATION and SETTER CREATION, nothing ignored
CreateRegistries ==
    /\ call.fn = "createRegistries" /\ ret = NoCall
    /\ ret' = [fn |-> "createRegistries",
               setters |-> createStateSettersOf(call.keys, call.routes, {}, TRUE),
               getters |-> createStateGettersOf(call.keys, call.routes, {},
                                                [defined |-> TRUE, value |-> TRUE])]
    /\ UNCHANGED <<call, windowVars>>

NextShape == CreateRegistries

SpecShape == InitShape /\ [][NextShape]_vars

\* ------------------------------------------------- cleanState on its own
\* the entries an application may list: keys and paths that exist, a key and
\* paths that do not, a path through a number, a path of one key
CleanEntries ==
    { KeyEntry("secret"), KeyEntry("public"), KeyEntry("nested"), KeyEntry("x"),
      PathEntry(<<"nested", "priv">>), PathEntry(<<"nested", "pub">>),
      PathEntry(<<"nested", "sib">>), PathEntry(<<"nested", "sib", "x">>),
      PathEntry(<<"public", "x">>), PathEntry(<<"priv", "x">>), PathEntry(<<"secret">>) }

PathLists == UNION {[1..n -> CleanEntries] : n \in 0..MaxPaths}

InitClean ==
    /\ NoWindows
    /\ \E shape \in {"flat", "nested", "deep"}, paths \in PathLists :
          call = [fn |-> "cleanState", state |-> DefaultState(shape),
                  heap |-> DefaultObjects(shape), privatePaths |-> paths]
    /\ ret = NoCall

CallCleanState ==
    /\ call.fn = "cleanState" /\ ret = NoCall
    /\ ret' = cleanState(call.state, call.privatePaths, call.heap)
    /\ UNCHANGED <<call, windowVars>>

NextClean == CallCleanState

SpecClean == InitClean /\ [][NextClean]_vars

\* ======================================================================
\* Properties
\* ======================================================================
IsProvider(c) == windowName[c] = storageOptions.providerWindow
IsSubscriber(c) == windowName[c] \in storageOptions.subscriberWindows
PrivatePaths == storageOptions.privateStatePaths
PrivateKeys == {PrivatePaths[j].p[1] : j \in {x \in 1..Len(PrivatePaths) : Len(PrivatePaths[x].p) = 1}}
OnlyTopLevel == \A j \in 1..Len(PrivatePaths) : Len(PrivatePaths[j].p) = 1

HoldsPrivate(o, h) == \E j \in 1..Len(PrivatePaths) : HasPath(o, h, PrivatePaths[j].p, 1)

RECURSIVE DeepEq(_, _, _, _)
DeepEq(v1, h1, v2, h2) ==
    IF IsRef(v1) # IsRef(v2) THEN FALSE
    ELSE IF ~IsRef(v1) THEN v1 = v2
    ELSE LET o1 == h1[Addr(v1)]
             o2 == h2[Addr(v2)]
         IN /\ DOMAIN o1 = DOMAIN o2
            /\ \A k \in DOMAIN o1 : DeepEq(o1[k], h1, o2[k], h2)

\* the persisted snapshot, parsed into a memory of its own
Snapshot == JSONParse(localStorage.text, <<>>)

\* [C1] With synchronization enabled and private paths configured, the
\* snapshot stored under the storage key contains no private key and no
\* private nested path, whoever wrote it last.
C1_SnapshotHoldsNoPrivate ==
    (localStorage.present /\ PrivatePaths # <<>>)
        => (Snapshot.ok /\ ~HoldsPrivate(Snapshot.obj, Snapshot.heap))

\* [C2] With top-level private keys, when a setState of the provider window
\* resolves, the snapshot is the provider's new state without the private
\* keys: every other key is there with the new value, no private key is.
C2_ProviderSnapshot ==
    (last.op = "Commit" /\ bind[last.ctx] /\ IsProvider(last.ctx) /\ OnlyTopLevel)
        => /\ localStorage.present /\ Snapshot.ok
           /\ DOMAIN Snapshot.obj = (DOMAIN provState[last.ctx]) \ PrivateKeys
           /\ \A k \in DOMAIN Snapshot.obj :
                 DeepEq(Snapshot.obj[k], Snapshot.heap, provState[last.ctx][k], heap[last.ctx])

C2_Witness ==
    /\ last.op = "Commit" /\ bind[last.ctx] /\ IsProvider(last.ctx)
    /\ PrivatePaths = <<KeyEntry("secret")>>
    /\ Has(provState[last.ctx], "secret") /\ Has(provState[last.ctx], "nested")
    /\ \E i \in 1..Len(last.batch) : last.batch[i].src = "setState"
    /\ last.after # last.before

\* [C3] A subscriber window never holds a value for a private key or path,
\* from connectToLocalStorage on, whatever localStorage held then.
C3_SubscriberHoldsNoPrivate ==
    \A c \in Ctx :
        (bind[c] /\ IsSubscriber(c) /\ phase[c] # "new")
            => /\ ~HoldsPrivate(cfState[c], heap[c])
               /\ (phase[c] = "mounted" => ~HoldsPrivate(provState[c], heap[c]))

DefaultHeap == <<NestedDefault>>

\* [C5] A provider that initializes from a persisted snapshot starts every
\* private entry (key or nested path) with the default value and every other
\* key with the persisted value.
C5_PrivateStartsDefault ==
    \A c \in Ctx :
        (last.op = "Connect" /\ last.ctx = c /\ IsProvider(c)
         /\ opts.initializeFromLocalStorage /\ Truthy(ghost[c].entry) /\ PrivatePaths # <<>>)
            => /\ \A j \in 1..Len(PrivatePaths) :
                    /\ HasPath(cfState[c], heap[c], PrivatePaths[j].p, 1)
                    /\ ValueAt(cfState[c], heap[c], PrivatePaths[j].p, 1)
                          = ValueAt(DefaultState(opts.shape), DefaultHeap, PrivatePaths[j].p, 1)
               /\ LET r == JSONParse(ghost[c].entry.text, <<>>) IN
                    \A k \in (DOMAIN r.obj) \ PrivateKeys : ~IsRef(r.obj[k]) => cfState[c][k] = r.obj[k]

\* [C6] After connectToLocalStorage the window's name is the provider name or
\* a subscriber name: a subscriber name is kept, every other name (unset,
\* left over) becomes the provider name, and the rule applied again changes
\* nothing.
C6_Identity ==
    \A c \in Ctx :
        (bind[c] /\ phase[c] # "new")
            => /\ windowName[c] \in {storageOptions.providerWindow} \cup storageOptions.subscriberWindows
               /\ (ghost[c].origName \in storageOptions.subscriberWindows
                      => windowName[c] = ghost[c].origName)
               /\ (ghost[c].origName \notin storageOptions.subscriberWindows
                      => windowName[c] = storageOptions.providerWindow)
               /\ AssignWindowName(windowName[c], storageOptions) = windowName[c]

C6_Witness ==
    \E c \in Ctx :
        /\ bind[c] /\ phase[c] # "new" /\ ghost[c].origName = ""
        /\ windowName[c] = storageOptions.providerWindow

Pos(log, ev, i) == {x \in 1..Len(log) : log[x].ev = ev /\ log[x].i = i}

\* [C7] In every commit, for every setState of the batch: the state is
\* committed first, then the snapshot is written (when synchronization is
\* on), then the callback gets the new state, then the promise resolves with
\* it; the callback and the promise see the written snapshot.
C7_Order ==
    last.op = "Commit" =>
        LET log == last.log IN
        /\ log[1].ev = "commit" /\ log[1].arg = last.after
        /\ \A i \in {x \in 1..Len(last.batch) : last.batch[x].src # "dispatch"} :
              /\ Cardinality(Pos(log, "callback", i)) = 1
              /\ Cardinality(Pos(log, "resolve", i)) = 1
              /\ Cardinality(Pos(log, "persist", i)) = (IF last.bound THEN 1 ELSE 0)
              /\ \A pc \in Pos(log, "callback", i), pr \in Pos(log, "resolve", i) :
                    /\ 1 < pc /\ pc < pr
                    /\ log[pc].arg = last.after /\ log[pr].arg = last.after
                    /\ \A pp \in Pos(log, "persist", i) :
                          /\ 1 < pp /\ pp < pc
                          /\ log[pc].ls = log[pp].ls /\ log[pr].ls = log[pp].ls

C7_Witness ==
    /\ last.op = "Commit" /\ last.bound
    /\ Len(last.batch) = 2
    /\ \E i \in 1..2 : last.batch[i].cb /\ last.batch[i].src = "setState"
    /\ Len(last.log) = 7
    /\ last.log[2].ls # last.log[1].ls

SetterFrame(u, after) ==
    /\ DOMAIN after = DOMAIN u.pre
    /\ \A k \in DOMAIN after :
          after[k] = (IF k = u.key THEN u.val ELSE u.pre[k])

\* [C10] as stated: the promise of setX(v) resolves with a state in which x
\* is v and every other key has the value it had before the call.
C10_Original ==
    last.op = "Commit" =>
        \A i \in 1..Len(last.batch) :
            last.batch[i].src = "setter" => SetterFrame(last.batch[i], last.after)

\* [C10] amended: when setX(v) is the only update of its commit, its promise
\* resolves with the new state, in which x is v and every other top-level
\* key has the value it had before the call.
C10_SetterAlone ==
    (last.op = "Commit" /\ Len(last.batch) = 1 /\ last.batch[1].src = "setter")
        => /\ SetterFrame(last.batch[1], last.after)
           /\ \A x \in Pos(last.log, "resolve", 1) : last.log[x].arg = last.after
           /\ provState[last.ctx] = last.after

C10_Witness ==
    /\ last.op = "Commit" /\ Len(last.batch) = 1 /\ last.batch[1].src = "setter"
    /\ last.batch[1].key = "secret"
    /\ last.before["secret"] # last.after["secret"]
    /\ Has(last.after, "secret") /\ Has(last.after, "nested")

\* [C8] In a window where only the chain runs, each continuation after an
\* awaited call reads a live state that holds that call's update: three
\* awaited addOne calls end three above the start.
C8_AwaitedChain ==
    \A c \in Ctx :
        (script[c].kind = "chain" /\ ~script[c].disturbed)
            => /\ \A i \in 1..Len(script[c].seen) : script[c].seen[i] = script[c].base + i
               /\ (script[c].done => script[c].final = script[c].base + ScriptLen)

C8_Witness ==
    \E c \in Ctx :
        /\ script[c].kind = "chain" /\ script[c].done /\ ~script[c].disturbed
        /\ Len(script[c].seen) = ScriptLen /\ bind[c]

\* [C9] Three addOne calls in a row without await, in a window where nothing
\* else is pending, leave the key three above its value once they have
\* committed.
C9_Burst ==
    \A c \in Ctx :
        (script[c].kind = "burst" /\ script[c].done /\ ~script[c].disturbed)
            => script[c].final = script[c].base + ScriptLen

C9_Witness ==
    \E c \in Ctx :
        /\ script[c].kind = "burst" /\ script[c].done /\ ~script[c].disturbed
        /\ last.op = "Commit" /\ Len(last.batch) = ScriptLen

\* ----------------------------------------------------------------- C11
\* the address of the object that the first n keys of p lead to; 0 when they
\* lead to no object
RECURSIVE AddrAt(_, _, _, _, _)
AddrAt(o, h, p, i, n) ==
    IF ~Has(o, p[i]) \/ ~IsRef(o[p[i]]) THEN 0
    ELSE IF i = n THEN Addr(o[p[i]])
    ELSE AddrAt(h[Addr(o[p[i]])], h, p, i + 1, n)

\* post differs from pre by a copy-on-write of path p to value v
CopyOnWrite(pre, preHeap, post, postHeap, p, v) ==
    /\ HasPath(post, postHeap, p, 1) /\ ValueAt(post, postHeap, p, 1) = v
    /\ Len(postHeap) >= Len(preHeap)
    /\ \A a \in 1..Len(preHeap) : postHeap[a] = preHeap[a]
    /\ DOMAIN post = (DOMAIN pre) \cup {p[1]}
    /\ \A k \in (DOMAIN pre) \ {p[1]} : post[k] = pre[k]
    /\ \A n \in 1..(Len(p) - 1) :
          LET new == AddrAt(post, postHeap, p, 1, n)
              old == AddrAt(pre, preHeap, p, 1, n)
              oldObj == IF old = 0 THEN EmptyObj ELSE preHeap[old]
          IN /\ new > Len(preHeap)
             /\ DOMAIN postHeap[new] = (DOMAIN oldObj) \cup {p[n + 1]}
             /\ \A k \in (DOMAIN oldObj) \ {p[n + 1]} : postHeap[new][k] = oldObj[k]

\* the update the last call put in the queue
LastUpdate == queue[last.ctx][Len(queue[last.ctx])]

\* [C11] A nested setter for path p replaces the value at p by copy-on-write:
\* in the state it hands to setState, and in the live state once that update
\* has committed on its own, every object on the way to p is a new object,
\* every other key at every level has the value or reference it had, the
\* value at p is the argument, and no object of the state before the call is
\* modified.
C11_CopyOnWrite ==
    /\ last.op = "NestedSetterCall"
          => CopyOnWrite(LastUpdate.pre, LastUpdate.preHeap, last.after, heap[last.ctx],
                         LastUpdate.key, LastUpdate.val)
    /\ (last.op = "Commit" /\ Len(last.batch) = 1 /\ last.batch[1].src = "nested")
          => /\ provState[last.ctx] = last.batch[1].partial
             /\ CopyOnWrite(last.batch[1].pre, last.batch[1].preHeap,
                            provState[last.ctx], heap[last.ctx],
                            last.batch[1].key, last.batch[1].val)

C11_Witness ==
    /\ last.op = "Commit" /\ Len(last.batch) = 1 /\ last.batch[1].src = "nested"
    /\ last.batch[1].key = <<"nested", "sib", "x">>
    /\ last.batch[1].val = 5
    /\ bind[last.ctx]
    /\ Has(heap[last.ctx][AddrAt(provState[last.ctx], heap[last.ctx], <<"nested">>, 1, 1)], "pub")

\* ----------------------------------------------------------------- C12
StateDeepEq(s1, h1, s2, h2) ==
    /\ DOMAIN s1 = DOMAIN s2
    /\ \A k \in DOMAIN s1 : DeepEq(s1[k], h1, s2[k], h2)

\* the call passed the value its key or path had in the live state
ValuePresent(u) ==
    IF u.src = "nested"
    THEN HasPath(u.pre, u.preHeap, u.key, 1) /\ ValueAt(u.pre, u.preHeap, u.key, 1) = u.val
    ELSE Has(u.pre, u.key) /\ u.pre[u.key] = u.val

\* [C12] A generated setter, top-level or nested, called with the value its
\* key or path already has, leaves the state deep-equal to the state before
\* the call once its update has committed (no other update in the commit).
C12_Idempotent ==
    (last.op = "Commit" /\ Len(last.batch) = 1
     /\ last.batch[1].src \in {"setter", "nested"} /\ ValuePresent(last.batch[1]))
        => /\ last.before = last.batch[1].pre
           /\ StateDeepEq(provState[last.ctx], heap[last.ctx], last.before, last.heapBefore)

C12_Witness ==
    /\ last.op = "Commit" /\ Len(last.batch) = 1
    /\ last.batch[1].src = "nested" /\ ValuePresent(last.batch[1])
    /\ last.batch[1].key = <<"nested", "pub">>
    /\ provState[last.ctx] # last.before
    /\ \E c \in Ctx : c # last.ctx /\ phase[c] = "mounted"

\* ----------------------------------------------------------------- C13
\* [C13] A generated setter, nested ones included, treats a function argument
\* as an updater: the update it hands to setState is the function, and the
\* function is never stored as the value of the key or path.
C13_FunctionIsUpdater ==
    (last.op = "Commit" /\ Len(last.batch) = 1
     /\ last.batch[1].src = "nested" /\ IsFunction(last.batch[1].val))
        => /\ last.batch[1].fn
           /\ ~(/\ HasPath(provState[last.ctx], heap[last.ctx], last.batch[1].key, 1)
                /\ IsFunction(ValueAt(provState[last.ctx], heap[last.ctx], last.batch[1].key, 1)))

\* ----------------------------------------------------------------- C14
\* the names in a registry that are for key k
NamesFor(registry, k) == {n \in DOMAIN registry : registry[n] = k}
Capitalized(k) == <<toUpperCase(k[1])>> \o Tail(k)
KeysOf(keys) == {keys[i] : i \in 1..Len(keys)}
IsUppercaseLetter(ch) == ch = "A"

\* [C14] as stated: every key that does not start with an uppercase letter
\* (lowercase, digit, underscore alike) gets exactly one getter get + the
\* capitalized key and, with dynamic setters on, exactly one setter; an
\* uppercase first character is the only reason for no accessor.
C14_Original ==
    (ret.fn = "createAccessors" /\ call.ignored = {}) =>
        \A k \in KeysOf(call.keys) :
            IF IsUppercaseLetter(k[1])
            THEN NamesFor(ret.getters, k) = {} /\ NamesFor(ret.setters, k) = {}
            ELSE /\ NamesFor(ret.getters, k) = {GetPrefix \o Capitalized(k)}
                 /\ (call.dynamicSetters => NamesFor(ret.setters, k) = {SetPrefix \o Capitalized(k)})

\* [C14] amended: a key gets accessors exactly when its first character
\* differs from its uppercase form (a lowercase letter) and the key is not on
\* the ignore list: then one getter get + capitalized key and, with dynamic
\* setters on, one setter set + capitalized key.  A key that starts with an
\* uppercase letter, a digit or an underscore gets none.
C14_Accessors ==
    ret.fn = "createAccessors" =>
        \A k \in KeysOf(call.keys) :
            IF k[1] # toUpperCase(k[1]) /\ k \notin call.ignored
            THEN /\ NamesFor(ret.getters, k) = {GetPrefix \o Capitalized(k)}
                 /\ NamesFor(ret.setters, k) =
                       (IF call.dynamicSetters THEN {SetPrefix \o Capitalized(k)} ELSE {})
            ELSE NamesFor(ret.getters, k) = {} /\ NamesFor(ret.setters, k) = {}

C14_Witness ==
    /\ ret.fn = "createAccessors" /\ call.dynamicSetters /\ call.ignored = {}
    /\ call.keys = << <<"a", "a">>, <<"_", "a">> >>
    /\ DOMAIN ret.setters = {<<"s", "e", "t", "A", "a">>}

\* ----------------------------------------------------------- C15, C16
\* the names of the auto-derived setters of the application
AutoDerived(o) == DOMAIN createStateSettersOf(RegKeys, RegRoutes, {}, o.nestedSetters)
Collisions(o) == o.custom \cap AutoDerived(o)

\* [C15] With allowSetterOverwrite false and overwriteProtectionLevel >= 2,
\* createProvider throws whenever a custom setter has the name of an
\* auto-derived one (of a top-level key or, with nestedSetters, of a nested
\* path), whatever developmentWarnings is.
C15_ThrowsOnCollision ==
    (ret # NoCall /\ call.fn = "createProvider" /\ call.dynamicSetters
     /\ ~call.allowSetterOverwrite /\ call.overwriteProtectionLevel >= 2
     /\ Collisions(call) # {})
        => ret.threw

\* [C16] With allowSetterOverwrite false and overwriteProtectionLevel 0 or 1,
\* a custom setter with the name of an auto-derived one (top-level or nested)
\* is dropped and the registry maps the name to the auto-derived setter;
\* custom setters with other names are kept.
C16_DropsCollision ==
    (ret # NoCall /\ call.fn = "createProvider" /\ call.dynamicSetters
     /\ ~call.allowSetterOverwrite /\ call.overwriteProtectionLevel <= 1)
        => /\ ~ret.threw
           /\ \A n \in Collisions(call) : Has(ret.setters, n) /\ ret.setters[n] = "dynamic"
           /\ \A n \in call.custom \ Collisions(call) :
                 Has(ret.setters, n) /\ ret.setters[n] = "custom"

\* ----------------------------------------------------------------- C17
IsPrefix(p, q) == Len(p) <= Len(q) /\ SubSeq(q, 1, Len(p)) = p
\* every key and every nested path of a state
Locations(state, h) ==
    {<<k>> : k \in DOMAIN state}
    \cup {getNestedRoutes(state, h)[i] : i \in 1..Len(getNestedRoutes(state, h))}
Listed(paths, q) == \E j \in 1..Len(paths) : IsPrefix(paths[j].p, q)

\* [C17] The result of cleanState(state, paths) holds no key and no path
\* listed in paths, and every key and nested value of the state that is not
\* on paths is in the result with the value it has in the input state.
C17_CleanState ==
    (call.fn = "cleanState" /\ ret # NoCall) =>
        /\ \A j \in 1..Len(call.privatePaths) :
              ~HasPath(ret.obj, ret.heap, call.privatePaths[j].p, 1)
        /\ Locations(ret.obj, ret.heap)
              = {q \in Locations(call.state, call.heap) : ~Listed(call.privatePaths, q)}
        /\ \A q \in Locations(ret.obj, ret.heap) :
              LET v == ValueAt(call.state, call.heap, q, 1)
              IN ~IsRef(v) => ValueAt(ret.obj, ret.heap, q, 1) = v

C17_Witness ==
    /\ call.fn = "cleanState" /\ ret # NoCall
    /\ call.privatePaths = <<PathEntry(<<"nested", "sib", "x">>), KeyEntry("public")>>
    /\ HasPath(call.state, call.heap, <<"nested", "sib", "x">>, 1)
    /\ HasPath(ret.obj, ret.heap, <<"nested", "sib">>, 1)
    /\ ~Has(ret.obj, "public")

\* ----------------------------------------------------------------- C18
\* [C18] Redaction before a write never changes the provider's state in
\* memory: after createProvider's first write and after every commit in the
\* provider window, every nested object of the window is as it was before,
\* and the live state holds every private path it held before the write.
C18_RedactionLeavesState ==
    (last.op \in {"CreateProvider", "Commit"} /\ last.bound /\ IsProvider(last.ctx))
        => /\ \A a \in 1..Len(last.heapBefore) : heap[last.ctx][a] = last.heapBefore[a]
           /\ \A j \in 1..Len(PrivatePaths) :
                 HasPath(last.after, last.heapBefore, PrivatePaths[j].p, 1)
                    => HasPath(last.after, heap[last.ctx], PrivatePaths[j].p, 1)

\* ----------------------------------------------------------------- C19
\* [C19] Once the provider window has unloaded with clearStorageOnUnload,
\* localStorage has no entry under the storage name, and none comes back
\* while nobody mutates the state, even when the subscriber windows, all of
\* them mounted and at rest at the unload, react to the removal.
C19_EntryStaysAbsent ==
    (cleared.done /\ cleared.atRest) => ~localStorage.present

\* ----------------------------------------------------------------- C20
\* [C20] When a window that is connected to localStorage unloads with
\* removeChildrenOnUnload, every handle in its window registry at that moment
\* gets a close() call; without removeChildrenOnUnload no handle gets one.
C20_ChildrenClosed ==
    (last.op = "Unload" /\ last.bound)
        => /\ last.registry = windows[last.ctx]
           /\ last.closed = (IF opts.removeChildrenOnUnload THEN last.registry ELSE {})
           /\ \A n \in last.closed : closeLog[n] > 0

C20_Witness ==
    /\ last.op = "Unload" /\ last.bound /\ opts.removeChildrenOnUnload
    /\ IsSubscriber(last.ctx)
    /\ last.registry = OpenNames
    /\ last.closed = OpenNames
    /\ \A n \in OpenNames : closeLog[n] = 2

\* ----------------------------------------------------------------- C22
\* [C22] windowManager.close(name) with name in the registry sends close() to
\* that handle and to no other, and removes that entry only; with a name that
\* is not in the registry it sends no close() and leaves the registry as it was.
C22_CloseFrame ==
    last.op = "CloseChild"
        => IF last.name \in last.registry
           THEN /\ last.closed = {last.name}
                /\ windows[last.ctx] = last.registry \ {last.name}
           ELSE /\ last.closed = {}
                /\ windows[last.ctx] = last.registry

C22_Witness ==
    /\ last.op = "CloseChild"
    /\ last.registry = OpenNames
    /\ windows[last.ctx] = OpenNames \ {last.name}
    /\ closeLog[last.name] = 1

\* ----------------------------------------------------------------- C23
\* [C23] windowManager.open(url, name) stores the handle under name and keeps
\* every other entry; a name that is in the registry already gets no close();
\* getChildren() returns the names opened and not closed since.
C23_OpenFrame ==
    /\ (last.op = "Open" /\ ~last.threw)
          => /\ windows[last.ctx] = last.registry \cup {last.name}
             /\ last.closed = {}
    /\ last.op = "GetChildren" => last.registry = ghost[last.ctx].opened

C23_Witness ==
    /\ last.op = "Open" /\ ~last.threw
    /\ last.name \in last.registry
    /\ last.registry = OpenNames

\* ----------------------------------------------------------------- C21
\* the window a handle name refers to is closed: it got a close(), and the
\* window of that name, when it is one of the application's, has closed
NameClosed(n) ==
    /\ closeLog[n] > 0
    /\ \A d \in Ctx : (windowName[d] = n /\ phase[d] # "absent") => phase[d] = "closed"

\* the names in the registry of c and in the registries of the windows they name
Descendants(c) ==
    windows[c] \cup UNION {windows[d] : d \in {x \in Ctx : windowName[x] \in windows[c]
                                                          /\ phase[x] # "absent"}}

ProviderUnloaded == \E c \in Ctx : IsProvider(c) /\ bind[c] /\ phase[c] = "closed"

DescendantsClosed ==
    \A c \in Ctx : (IsProvider(c) /\ bind[c] /\ phase[c] = "closed")
                      => \A n \in Descendants(c) : NameClosed(n)

\* [C21] With removeChildrenOnUnload in every window, the unload of the
\* provider window leads to every descendant window being closed: the handler
\* of each window sends close() to the handles of its own registry only, and a
\* child that is closed runs its handler in turn.
C21_Cascade ==
    /\ [](last.op \in {"Unload", "CloseDelivered"} => last.closed = last.registry)
    /\ ProviderUnloaded ~> DescendantsClosed

C21_Witness ==
    /\ last.op = "CloseDelivered" /\ last.ctx = "w2"
    /\ phase["w1"] = "closed" /\ IsProvider("w1")
    /\ "child" \in windows["w1"] /\ "guest" \notin windows["w1"]
    /\ last.registry = {"guest"} /\ last.closed = {"guest"}
    /\ DescendantsClosed

\* ----------------------------------------------------------------- C24
\* [C24] The promise of dispatch(state, action) resolves with the updated
\* state: the state of the window after the commit of the reducer's result.
C24_DispatchResolvesWithState ==
    last.op = "Commit" =>
        \A i \in 1..Len(last.batch) :
            last.batch[i].src = "dispatch"
                => \E x \in Pos(last.log, "resolve", i) : last.log[x].arg = provState[last.ctx]

OwnSnapshot(c) ==
    IF PrivatePaths # <<>> /\ IsProvider(c)
    THEN LET cl == cleanState(provState[c], PrivatePaths, heap[c])
         IN JSONStringify(cl.obj, cl.heap)
    ELSE JSONStringify(provState[c], heap[c])

\* [C30] In a window connected to localStorage every mutation, by setState, a
\* generated setter, dispatch or the handling of a storage event, rewrites
\* the snapshot: after its commit the entry is the snapshot of the new state.
C30_EveryMutationPersists ==
    (last.op = "Commit" /\ last.bound)
        => /\ localStorage.present
           /\ localStorage.text = OwnSnapshot(last.ctx)

\* ----------------------------------------------------------------- C25
\* [C25] connectToLocalStorage without a name throws, and a provider made
\* from that instance afterwards writes nothing to localStorage, neither
\* when it is created nor on setState.
C25_NoNameNoWrite ==
    opts.name = NoName
        => /\ (last.op = "Connect" => last.threw)
           /\ ~localStorage.present

\* ----------------------------------------------------------------- C26
RenamesOntoProtected(o) ==
    \E i \in 1..Len(o.renameMap) : o.renameMap[i].to \in PROTECTED_NAMESPACES

NamespaceProtected(o) ==
    \E i \in 1..Len(o.namespacedMethods) : o.namespacedMethods[i] \in PROTECTED_NAMESPACES

\* [C26] A rename map with a protected name as a target, whether or not the
\* key to rename is in the value, and a group of namespaced methods under a
\* protected name both make the Provider throw before any value is delivered.
C26_ProtectedNames ==
    (ret # NoCall /\ call.fn = "Provider"
     /\ (RenamesOntoProtected(call) \/ NamespaceProtected(call)))
        => /\ ret.threw /\ ~ret.delivered
           /\ (NamespaceProtected(call) => ret.at = "constructor")

C26_Witness ==
    /\ ret # NoCall /\ call.fn = "Provider"
    /\ ~NamespaceProtected(call)
    /\ Len(call.renameMap) = 2
    /\ call.renameMap[1] = [from |-> "state", to |-> "data"]
    /\ call.renameMap[2] = [from |-> "missing", to |-> "props"]
    /\ ret.threw /\ ret.at = "render"

\* ----------------------------------------------------------------- C27
\* [C27] With the option nestedGetters false the getter registry made by
\* createProvider has getters for top-level keys only, none for a nested path.
C27_TopLevelGettersOnly ==
    (ret # NoCall /\ call.fn = "createGetters" /\ ~call.nestedGetters)
        => \A n \in DOMAIN ret.getters : ret.getters[n] \in KeysOf(call.keys)

\* ----------------------------------------------------------------- C28
\* [C28] A generated getter returns the value that is in the live state at
\* its key or path when it is called, whatever was there when the getter was
\* made; where the live state has nothing at the path it returns no value.
C28_GetterReadsLive ==
    last.op = "GetterCall"
        => IF HasPath(provState[last.ctx], heap[last.ctx], last.path, 1)
           THEN last.val = Val(ValueAt(provState[last.ctx], heap[last.ctx], last.path, 1))
           ELSE last.val.kind # "value"

C28_Witness ==
    /\ last.op = "GetterCall"
    /\ last.path = <<"nested", "pub">>
    /\ last.val.kind = "value"
    /\ HasPath(cfState[last.ctx], heap[last.ctx], last.path, 1)
    /\ last.val.v # ValueAt(cfState[last.ctx], heap[last.ctx], last.path, 1)

\* ----------------------------------------------------------------- C31
\* the snapshot the storage listener reads: getItem gives null without an
\* entry, and spreading null adds nothing
SnapshotRead == IF localStorage.present THEN Snapshot.obj ELSE EmptyObj

\* [C31] The handling of a storage event merges the snapshot into the live
\* state: in the state it hands to setState every top-level key of the
\* snapshot has the snapshot's value and every other key of the live state
\* its local value; and when the provider window commits such an update
\* alone, its private top-level keys have the value they had before.
C31_ReconcileMerges ==
    /\ last.op = "HandleStorage"
          => LET c == last.ctx
                 u == queue[c][Len(queue[c])]
             IN /\ DOMAIN u.partial = (DOMAIN provState[c]) \cup (DOMAIN SnapshotRead)
                /\ \A k \in DOMAIN SnapshotRead :
                      DeepEq(u.partial[k], heap[c], SnapshotRead[k], Snapshot.heap)
                /\ \A k \in (DOMAIN provState[c]) \ (DOMAIN SnapshotRead) :
                      u.partial[k] = provState[c][k]
    /\ (/\ last.op = "Commit" /\ IsProvider(last.ctx)
        /\ \A i \in 1..Len(last.batch) : last.batch[i].src = "storage")
          => \A k \in PrivateKeys \cap (DOMAIN last.before) :
                Has(last.after, k) /\ last.after[k] = last.before[k]

\* ----------------------------------------------------------------- C32
\* [C32] When the entry is not parseable at the time a storage event is
\* handled, the error stays inside updateStateFromLocalStorage: the listener
\* ends without throwing.
C32_ParseErrorRecovered ==
    last.op = "HandleStorage" => ~last.threw

\* ----------------------------------------------------------------- C33
\* two windows have each written for a setState, both listening at the first
\* write, and neither handled a storage event between the two writes
RacedWrites ==
    /\ race.on /\ Len(race.writes) = 2
    /\ race.writes[1].ctx # race.writes[2].ctx
    /\ race.writes[1].listening = Ctx
    /\ race.writes[2].handledBefore = {}

\* in windows connected to localStorage every storage event is handled and
\* every update committed
AllDelivered ==
    \A c \in Ctx : phase[c] = "mounted" /\ bind[c] /\ events[c] = 0 /\ queue[c] = <<>>

C34_RegistryWithinSubscribers ==
    \A c \in Ctx : windows[c] \subseteq storageOptions.subscriberWindows

\* ----------------------------------------------------------------- C35
\* [C35] Only the unload of a provider window with clearStorageOnUnload
\* removes the entry: the unload of any other window leaves localStorage as
\* it was, with and without clearStorageOnUnload, and still sends close() to
\* the windows of its registry when removeChildrenOnUnload is set.
C35_OnlyProviderClears ==
    [][ /\ (localStorage.present /\ ~localStorage'.present)
            => /\ last'.op = "Unload"
               /\ IsProvider(last'.ctx) /\ opts.clearStorageOnUnload
        /\ (last'.op = "Unload" /\ ~IsProvider(last'.ctx))
            => /\ localStorage' = localStorage
               /\ last'.closed = (IF bind[last'.ctx] /\ opts.removeChildrenOnUnload
                                  THEN windows[last'.ctx] ELSE {}) ]_vars

C35_Witness ==
    /\ last.op = "Unload" /\ last.bound /\ IsSubscriber(last.ctx)
    /\ opts.clearStorageOnUnload /\ opts.removeChildrenOnUnload
    /\ localStorage.present
    /\ last.closed = OpenNames

\* ----------------------------------------------------------------- C36
\* the entry parsed into a memory of its own; nothing without an entry
Parsed(ls) == IF Truthy(ls) THEN JSONParse(ls.text, <<>>) ELSE ParseFail(<<>>)

\* the state o (in memory h) is the default state with the keys of the
\* snapshot a laid over it, and those of the snapshot b over both
MergedOverDefault(o, h, a, b) ==
    LET D == DefaultState(opts.shape) IN
    /\ DOMAIN o = (DOMAIN D) \cup (DOMAIN a.obj) \cup (DOMAIN b.obj)
    /\ \A k \in DOMAIN o :
          IF k \in DOMAIN b.obj THEN DeepEq(o[k], h, b.obj[k], b.heap)
          ELSE IF k \in DOMAIN a.obj THEN DeepEq(o[k], h, a.obj[k], a.heap)
          ELSE DeepEq(o[k], h, D[k], DefaultObjects(opts.shape))

\* [C36] The state a provider window starts with is the default state with
\* the snapshot merged over it key by key when initializeFromLocalStorage is
\* set and there is an entry, and the default state itself when the flag is
\* unset or there is no entry: after connectToLocalStorage with the entry
\* read there, and in the mounted Provider with the entry its constructor
\* reads laid over that.
C36_ProviderInitialState ==
    \A c \in Ctx :
        (last.ctx = c /\ last.op \in {"Connect", "Mount"} /\ bind[c] /\ IsProvider(c))
            => LET o == IF last.op = "Connect" THEN cfState[c] ELSE provState[c]
                   none == ParseFail(<<>>)
                   a == IF opts.initializeFromLocalStorage THEN Parsed(ghost[c].entry) ELSE none
                   b == IF opts.initializeFromLocalStorage /\ last.op = "Mount"
                        THEN Parsed(localStorage) ELSE none
               IN MergedOverDefault(o, heap[c], a, b)

\* ----------------------------------------------------------------- C37
\* the keys and the nested paths of the state of the call, each as a path
ShapeLocations == {<<call.keys[i]>> : i \in 1..Len(call.keys)}
                     \cup {call.routes[i] : i \in 1..Len(call.routes)}
\* the accessor name derived for a key or path
AccessorName(loc, prefix) == formatStateName(Join(loc, 1), prefix)

\* [C37] The accessor names derived from one state shape are unique: no two
\* distinct keys or nested paths get the same setter name or the same getter
\* name, and the registries hold one entry for each key or path that gets a
\* name.
C37_NamesUnique ==
    (ret # NoCall /\ call.fn = "createRegistries")
        => \A prefix \in {SetPrefix, GetPrefix} :
              LET named == {l \in ShapeLocations : AccessorName(l, prefix) # Null}
                  registry == IF prefix = SetPrefix THEN ret.setters ELSE ret.getters
              IN /\ \A l1 \in named, l2 \in named :
                        l1 # l2 => AccessorName(l1, prefix) # AccessorName(l2, prefix)
                 /\ Cardinality(DOMAIN registry) = Cardinality(named)

\* ----------------------------------------------------------------- C38
\* an intermediate key of the nested path p does not exist in the state
MissingIntermediate(state, h, p) ==
    \E i \in 1..(Len(p) - 1) : ~HasPath(state, h, SubSeq(p, 1, i), 1)
\* the entries of the call that are nested paths with a missing intermediate key
MissingEntries ==
    {j \in 1..Len(call.privatePaths) :
        /\ call.privatePaths[j].arr
        /\ MissingIntermediate(call.state, call.heap, call.privatePaths[j].p)}

\* [C38] cleanState does not fail on a nested private path with an
\* intermediate key that does not exist: the call returns, that path changes
\* nothing, every other private entry is removed from the result, and every
\* other key and nested value is in the result as it is in the input.
C38_MissingPathSkipped ==
    (call.fn = "cleanState" /\ ret # NoCall /\ MissingEntries # {}) =>
        LET rest == {j \in 1..Len(call.privatePaths) : j \notin MissingEntries}
        IN /\ DOMAIN ret = {"obj", "heap"}
           /\ \A j \in rest : ~HasPath(ret.obj, ret.heap, call.privatePaths[j].p, 1)
           /\ Locations(ret.obj, ret.heap)
                 = {q \in Locations(call.state, call.heap) :
                       \A j \in rest : ~IsPrefix(call.privatePaths[j].p, q)}
           /\ \A q \in Locations(ret.obj, ret.heap) :
                 LET v == ValueAt(call.state, call.heap, q, 1)
                 IN IsRef(v) \/ ValueAt(ret.obj, ret.heap, q, 1) = v

C38_Witness ==
    /\ call.fn = "cleanState" /\ ret # NoCall
    /\ call.privatePaths = <<PathEntry(<<"priv", "x">>), KeyEntry("secret")>>
    /\ MissingEntries = {1}
    /\ Has(call.state, "secret") /\ ~Has(ret.obj, "secret")
    /\ Has(ret.obj, "public")

\* ----------------------------------------------------------------- C39
\* no update waits for its commit and no storage event for its listener
Settled == \A c \in Ctx : queue[c] = <<>> /\ events[c] = 0

\* [C39] After one setState and no further call of the application the
\* windows come to rest: from some point on no update is pending and no
\* storage event is undelivered, also when the provider redacts private
\* keys that a subscriber holds.
C39_Quiescence == <>[]Settled

\* ----------------------------------------------------------------- C40
\* two paths under the same top-level key, neither part of the other
SiblingPaths(p, q) == p[1] = q[1] /\ ~IsPrefix(p, q) /\ ~IsPrefix(q, p)
\* the last commit took two nested setter calls for sibling paths as the
\* last two updates of one batch: the second was made before the first committed
SiblingBatch ==
    /\ last.op = "Commit" /\ Len(last.batch) >= 2
    /\ LET n == Len(last.batch) IN
          /\ last.batch[n - 1].src = "nested" /\ last.batch[n].src = "nested"
          /\ SiblingPaths(last.batch[n - 1].key, last.batch[n].key)
\* the indices of the updates whose promises resolved, in the order they did
ResolvedOrder ==
    LET r == SelectSeq(last.log, LAMBDA e : e.ev = "resolve")
    IN [i \in 1..Len(r) |-> r[i].i]

\* [C40] A nested setter computes the new state from the live state at the
\* call: when two nested setters for sibling paths under one top-level key
\* are called without awaiting the first, both updates commit in the order
\* of the calls and the top-level key ends with the object the second call
\* computed, which has the new value at the second path and, at the first
\* path, the value from before the first call.
C40_SiblingSetters ==
    SiblingBatch =>
        LET n == Len(last.batch)
            u1 == last.batch[n - 1]
            u2 == last.batch[n]
            top == u2.key[1]
            h == heap[last.ctx]
        IN /\ ResolvedOrder = [i \in 1..n |-> i]
           /\ u2.pre = u1.pre
           /\ u2.partial = nestedSetterFactory(u2.pre, u2.key, u2.val, u2.preHeap).obj
           /\ last.after[top] = u2.partial[top]
           /\ last.after[top] # u1.partial[top]
           /\ ValueAt(last.after, h, u2.key, 1) = u2.val
           /\ HasPath(last.after, h, u1.key, 1) = HasPath(u1.pre, u1.preHeap, u1.key, 1)
           /\ HasPath(last.after, h, u1.key, 1) =>
                 ValueAt(last.after, h, u1.key, 1) = ValueAt(u1.pre, u1.preHeap, u1.key, 1)

C40_Witness ==
    /\ SiblingBatch
    /\ last.batch[1].key = <<"nested", "pub">> /\ last.batch[1].val = 5
    /\ last.batch[2].key = <<"nested", "sib", "x">> /\ last.batch[2].val = 6
    /\ ValueAt(last.after, heap[last.ctx], <<"nested", "pub">>, 1) = 2
    /\ ValueAt(last.after, heap[last.ctx], <<"nested", "sib", "x">>, 1) = 6

====
